---------------------------- MODULE Spec2Model ----------------------------
(***************************************************************************)
(* x-postgres: the schema parser, the default normalizer, the SQL          *)
(* generator, the diff engine, the schema engine (generateDiff), the       *)
(* migration orchestrator (up), the seed runner (runSeed) and the Database *)
(* service (pool registry, query, transaction), together with the          *)
(* PostgreSQL catalog and tables the statements act on.  The pure          *)
(* functions (normalizeDbDefaultForCompare, checkTypeMismatch,             *)
(* checkDefaultMismatch, parseSchema, generateCreateTable) are also        *)
(* applied on their own to inputs drawn from finite sets.                  *)
(*                                                                         *)
(* JavaScript strings are TLA+ strings; TLC evaluates Len, Head, Tail,     *)
(* SubSeq and \o on them, so the string functions below work character by  *)
(* character as the source does.  A nullable value (T | null) is a         *)
(* sequence of length 0 (null) or 1 (the value).                           *)
(***************************************************************************)
EXTENDS Integers, Sequences, FiniteSets, TLC

VARIABLES
    decl,       \* the declaration files: a sequence of files, each a sequence of table entries
    live,       \* per target: the database (exists flag, tables in catalog order)
    opts,       \* the options up() was called with
    pc,         \* position of up() / of the single-table life cycle
    ti,         \* index of the current target in Targets
    queries,    \* the statement list of the current target (generateDiff's result)
    qi,         \* number of statements of queries already dispatched
    inflight,   \* the statement dispatched and not yet completed (0 or 1 long)
    result,     \* up()'s MigrationResult: executed, failed, total
    wire,       \* what reached the executors: every dispatch, in order
    run,        \* single-table life cycle: the current run (what it diffed against, all ok so far)
    prev,       \* single-table life cycle: how the previous run ended
    budget,     \* single-table life cycle: edits of the declaration plus failures of acceptable statements
    poolRegistry,   \* the module's Map of pool key -> pool: a set of [key, pool]
    pools,      \* every pg.Pool constructed so far: [key, ended], ended counting its end() calls
    conn,       \* Database.transaction: the checked-out connection and the call's position
    seed,       \* runSeed: the seed files, the rows of the tables and the run's position
    applied     \* a function applied on its own: its arguments, and its values once returned;
                \* in a second call of runSeed, the table as that call found it

vars == <<decl, live, opts, pc, ti, queries, qi, inflight, result, wire, run, prev, budget,
          poolRegistry, pools, conn, seed, applied>>

(***************************************************************************)
(* Bounds of the model.                                                    *)
(***************************************************************************)
MaxChanges == 2
MaxFaults == 1

(***************************************************************************)
(* Nullable values.                                                        *)
(***************************************************************************)
Null == <<>>
Some(v) == <<v>>

(***************************************************************************)
(* JavaScript string functions.                                            *)
(***************************************************************************)
Ch(s, i) == SubSeq(s, i, i)

LowerAlphabet == "abcdefghijklmnopqrstuvwxyz"
UpperAlphabet == "ABCDEFGHIJKLMNOPQRSTUVWXYZ"
LowerChars == {Ch(LowerAlphabet, i) : i \in 1..Len(LowerAlphabet)}
UpperChars == {Ch(UpperAlphabet, i) : i \in 1..Len(UpperAlphabet)}
DigitChars == {"0", "1", "2", "3", "4", "5", "6", "7", "8", "9"}
LetterChars == LowerChars \cup UpperChars
\* \w of a JavaScript regular expression
WordChars == LetterChars \cup DigitChars \cup {"_"}
\* \s of a JavaScript regular expression (the characters the model uses)
SpaceChars == {" ", "\t", "\n"}

UpperOf == [c \in LowerChars |->
              Ch(UpperAlphabet, CHOOSE i \in 1..Len(LowerAlphabet) : Ch(LowerAlphabet, i) = c)]
LowerOf == [c \in UpperChars |->
              Ch(LowerAlphabet, CHOOSE i \in 1..Len(UpperAlphabet) : Ch(UpperAlphabet, i) = c)]

RECURSIVE toUpperCase(_)
toUpperCase(s) ==
    IF s = "" THEN ""
    ELSE (IF Head(s) \in LowerChars THEN UpperOf[Head(s)] ELSE Head(s)) \o toUpperCase(Tail(s))

RECURSIVE toLowerCase(_)
toLowerCase(s) ==
    IF s = "" THEN ""
    ELSE (IF Head(s) \in UpperChars THEN LowerOf[Head(s)] ELSE Head(s)) \o toLowerCase(Tail(s))

startsWith(s, p) == Len(s) >= Len(p) /\ SubSeq(s, 1, Len(p)) = p
endsWith(s, p) == Len(s) >= Len(p) /\ SubSeq(s, Len(s) - Len(p) + 1, Len(s)) = p
includes(s, p) == \E i \in 1..(Len(s) - Len(p) + 1) : SubSeq(s, i, i + Len(p) - 1) = p
substring(s, n) == SubSeq(s, n + 1, Len(s))

AllIn(s, chars) == \A i \in 1..Len(s) : Ch(s, i) \in chars

RECURSIVE trimStart(_)
trimStart(s) == IF s # "" /\ Head(s) \in SpaceChars THEN trimStart(Tail(s)) ELSE s

RECURSIVE trimEnd(_)
trimEnd(s) ==
    IF s # "" /\ Ch(s, Len(s)) \in SpaceChars THEN trimEnd(SubSeq(s, 1, Len(s) - 1)) ELSE s

trim(s) == trimEnd(trimStart(s))

\* s.replace(/\s+/g, ' ')
RECURSIVE collapseSpace(_)
collapseSpace(s) ==
    IF s = "" THEN ""
    ELSE IF Head(s) \in SpaceChars THEN " " \o collapseSpace(trimStart(s))
    ELSE Head(s) \o collapseSpace(Tail(s))

\* s.split(c) for a one-character separator c
RECURSIVE split(_, _)
split(s, c) ==
    IF \E i \in 1..Len(s) : Ch(s, i) = c
    THEN LET i == CHOOSE k \in 1..Len(s) :
                      Ch(s, k) = c /\ \A j \in 1..(k - 1) : Ch(s, j) # c
         IN  <<SubSeq(s, 1, i - 1)>> \o split(SubSeq(s, i + 1, Len(s)), c)
    ELSE <<s>>

\* s.split(/\s+/): every run of white space is one separator
splitSpace(s) == split(collapseSpace(s), " ")

\* s.replace(/p/g, r) for a literal pattern p; with ci, /p/gi
RECURSIVE replaceAll(_, _, _, _)
replaceAll(s, p, r, ci) ==
    IF Len(s) < Len(p) \/ p = "" THEN s
    ELSE LET h == SubSeq(s, 1, Len(p))
         IN  IF h = p \/ (ci /\ toLowerCase(h) = toLowerCase(p))
             THEN r \o replaceAll(SubSeq(s, Len(p) + 1, Len(s)), p, r, ci)
             ELSE Head(s) \o replaceAll(Tail(s), p, r, ci)

\* arr.includes(x)
SeqIncludes(arr, x) == \E i \in 1..Len(arr) : arr[i] = x

RECURSIVE Concat(_)
Concat(seqs) == IF seqs = <<>> THEN <<>> ELSE Head(seqs) \o Concat(Tail(seqs))

\* String(n) of a non-negative integer
RECURSIVE String(_)
String(n) ==
    IF n < 10 THEN Ch("0123456789", n + 1)
    ELSE String(n \div 10) \o Ch("0123456789", (n % 10) + 1)

\* the integer a run of digits denotes (leading zeros allowed), as the server reads it
DigitValue == [c \in DigitChars |-> CHOOSE n \in 0..9 : Ch("0123456789", n + 1) = c]

RECURSIVE parseInt(_)
parseInt(s) ==
    IF s = "" THEN 0 ELSE 10 * parseInt(SubSeq(s, 1, Len(s) - 1)) + DigitValue[Ch(s, Len(s))]

\* \d+(?:,\d+)?
IsLengthSpec(x) ==
    LET p == split(x, ",")
    IN  /\ Len(p) \in {1, 2}
        /\ \A i \in 1..Len(p) : p[i] # "" /\ AllIn(p[i], DigitChars)

(***************************************************************************)
(* typeDictionary.ts                                                       *)
(***************************************************************************)
POSTGRES_TYPE_DICTIONARY ==
    [
      SERIAL |-> "integer",
      SMALLSERIAL |-> "smallint",
      BIGSERIAL |-> "bigint",
      SERIAL2 |-> "smallint",
      SERIAL4 |-> "integer",
      SERIAL8 |-> "bigint",
      VARCHAR |-> "character varying",
      CHAR |-> "character",
      TEXT |-> "text",
      INT |-> "integer",
      INTEGER |-> "integer",
      INT2 |-> "smallint",
      INT4 |-> "integer",
      INT8 |-> "bigint",
      SMALLINT |-> "smallint",
      BIGINT |-> "bigint",
      REAL |-> "real",
      DOUBLE |-> "double precision",
      FLOAT |-> "double precision",
      FLOAT4 |-> "real",
      FLOAT8 |-> "double precision",
      NUMERIC |-> "numeric",
      DECIMAL |-> "numeric",
      TIMESTAMP |-> "timestamp without time zone",
      TIMESTAMPTZ |-> "timestamp with time zone",
      DATE |-> "date",
      TIME |-> "time without time zone",
      TIMETZ |-> "time with time zone",
      BOOLEAN |-> "boolean",
      BOOL |-> "boolean",
      JSON |-> "json",
      JSONB |-> "jsonb",
      UUID |-> "uuid",
      VARBIT |-> "bit varying"
    ]

\* POSTGRES_TYPE_DICTIONARY[configBaseType] ?? configBaseType.toLowerCase()
MappedType(configBaseType) ==
    IF configBaseType \in DOMAIN POSTGRES_TYPE_DICTIONARY
    THEN POSTGRES_TYPE_DICTIONARY[configBaseType]
    ELSE toLowerCase(configBaseType)

(***************************************************************************)
(* defaultNormalizer.ts                                                    *)
(***************************************************************************)
\* /^-?\d+(\.\d+)?$/
IsNumericLiteral(raw) ==
    LET u == IF startsWith(raw, "-") THEN Tail(raw) ELSE raw
        p == split(u, ".")
    IN  /\ Len(p) \in {1, 2}
        /\ \A i \in 1..Len(p) : p[i] # "" /\ AllIn(p[i], DigitChars)

HexChars == DigitChars \cup {"a", "b", "c", "d", "e", "f", "A", "B", "C", "D", "E", "F"}

\* /^[0-9a-f]{8}-[0-9a-f]{4}-[0-9a-f]{4}-[0-9a-f]{4}-[0-9a-f]{12}$/i
IsUuidLiteral(raw) ==
    LET p == split(raw, "-")
    IN  /\ Len(p) = 5
        /\ <<Len(p[1]), Len(p[2]), Len(p[3]), Len(p[4]), Len(p[5])>> = <<8, 4, 4, 4, 12>>
        /\ \A i \in 1..5 : AllIn(p[i], HexChars)

\* /^'(.*)'$/s and /^"(.*)"$/s
IsWrapped(raw, q) == Len(raw) >= 2 /\ Head(raw) = q /\ Ch(raw, Len(raw)) = q
Unwrap(raw) == SubSeq(raw, 2, Len(raw) - 1)

SqlKeywords == {"CURRENT_TIMESTAMP", "CURRENT_DATE", "CURRENT_TIME"}

\* rawDefault is nullable; the result is nullable (null: no DEFAULT clause)
normalizeDefaultSql(rawDefault, typeRealUpper) ==
    LET \* the steps after the "default " prefix is stripped
        Literal(raw) ==
            IF endsWith(trimEnd(raw), ")") \/ toUpperCase(raw) \in SqlKeywords THEN Some(raw)
            ELSE IF toLowerCase(raw) \in {"true", "false"} THEN Some(toUpperCase(raw))
            ELSE IF IsNumericLiteral(raw) THEN Some(raw)
            ELSE IF includes(typeRealUpper, "JSONB") \/ includes(typeRealUpper, "JSON")
            THEN IF Head(raw) \in {"{", "["}
                 THEN IF includes(typeRealUpper, "JSONB")
                      THEN Some("'" \o replaceAll(raw, "'", "''", FALSE) \o "'::jsonb")
                      ELSE Some("'" \o replaceAll(raw, "'", "''", FALSE) \o "'::json")
                 ELSE Some(raw)
            ELSE IF IsUuidLiteral(raw) THEN Some("'" \o toLowerCase(raw) \o "'")
            ELSE IF IsWrapped(raw, "'") THEN Some(raw)
            ELSE Some("'" \o replaceAll(IF IsWrapped(raw, "\"") THEN Unwrap(raw) ELSE raw,
                                        "'", "''", FALSE) \o "'")
        Trimmed(raw) ==
            IF raw = "" THEN Null
            ELSE IF toLowerCase(raw) = "null" THEN Null
            ELSE Literal(IF startsWith(toLowerCase(raw), "default ")
                         THEN trim(substring(raw, 8)) ELSE raw)
    IN  IF rawDefault = Null THEN Null ELSE Trimmed(trim(rawDefault[1]))

buildDefaultClause(rawDefault, typeRealUpper) ==
    LET Clause(sql) == IF sql = Null THEN "" ELSE "DEFAULT " \o sql[1]
    IN  Clause(normalizeDefaultSql(rawDefault, typeRealUpper))

\* d.match(/^(.*)::[a-zA-Z][a-zA-Z0-9_ ]*$/): the cast is what follows the last "::",
\* since the type part holds no colon; the result is m[1], or null
CastMatch(d) ==
    LET colons == {i \in 1..Len(d) : Ch(d, i) = ":"}
    IN  IF colons = {} THEN Null
        ELSE LET j == CHOOSE i \in colons : \A k \in colons : k <= i
                 tail == SubSeq(d, j + 1, Len(d))
             IN  IF /\ j >= 2
                    /\ Ch(d, j - 1) = ":"
                    /\ tail # ""
                    /\ Head(tail) \in LetterChars
                    /\ AllIn(tail, WordChars \cup {" "})
                    /\ ~ includes(SubSeq(d, 1, j - 2), "\n")
                 THEN Some(SubSeq(d, 1, j - 2))
                 ELSE Null

\* while (prev !== d) { prev = d; m = d.match(...); if (m) d = m[1].trim(); }
RECURSIVE StripCasts(_)
StripCasts(d) ==
    LET Strip(m) == IF m = Null THEN d
                    ELSE IF m[1] = d THEN d
                    ELSE StripCasts(m[1])
        Trim(m) == IF m = Null THEN Null ELSE Some(trim(m[1]))
    IN  Strip(Trim(CastMatch(d)))

\* dbDefault is a string here: the caller passes column_default ?? ''
normalizeDbDefaultForCompare(dbDefault) ==
    LET Encode(d) == IF startsWith(toLowerCase(d), "encode(")
                     THEN replaceAll(replaceAll(d, "::text", "", TRUE), "::unknown", "", TRUE)
                     ELSE d
        Parens(d) == IF Len(d) >= 2 /\ Head(d) = "(" /\ Ch(d, Len(d)) = ")"
                     THEN trim(Unwrap(d)) ELSE d
        Quotes(d) == IF IsWrapped(d, "'") THEN Unwrap(d) ELSE d
        Boolean(d) == IF toLowerCase(d) \in {"true", "false"} THEN toLowerCase(d) ELSE d
        Collapsed(d) ==
            IF includes(toLowerCase(d), "nextval(") THEN d
            ELSE replaceAll(Boolean(Quotes(Parens(StripCasts(Encode(d))))), "''", "'", FALSE)
        Trimmed(d) == IF d = "" THEN "" ELSE Collapsed(collapseSpace(d))
    IN  Trimmed(trim(dbDefault))

(***************************************************************************)
(* schemaParser.ts                                                         *)
(*                                                                         *)
(* A field map is the sequence of its entries [k, v, str] in key order     *)
(* (Object.entries); str tells whether the YAML value is a string.  The    *)
(* ordered objects of ParsedSchema (fields, compositeIndexes,              *)
(* compositeUniqueIndexes) are sequences in insertion order.               *)
(***************************************************************************)
\* typeReal.replace(/\(\d+(?:,\d+)?\)/, ''): the first match is removed
RemoveLength(typeReal) ==
    LET Cut(f) == SubSeq(typeReal, 1, f[1] - 1) \o SubSeq(typeReal, f[2] + 1, Len(typeReal))
        First(m) == IF m = {} THEN typeReal
                    ELSE Cut(CHOOSE p \in m : \A q \in m : p[1] <= q[1])
    IN  First({p \in (1..Len(typeReal)) \X (1..Len(typeReal)) :
                  /\ p[1] < p[2]
                  /\ Ch(typeReal, p[1]) = "("
                  /\ Ch(typeReal, p[2]) = ")"
                  /\ IsLengthSpec(SubSeq(typeReal, p[1] + 1, p[2] - 1))})

\* the first part that starts with 'default/', cut after the slash; null if none
RECURSIVE FindDefault(_)
FindDefault(parts) ==
    IF parts = <<>> THEN Null
    ELSE IF startsWith(Head(parts), "default/") THEN Some(substring(Head(parts), 8))
    ELSE FindDefault(Tail(parts))

\* groups[groupName].push(fieldName), creating the group when it is missing
PushGroup(groups, groupName, fieldName) ==
    IF \E i \in 1..Len(groups) : groups[i].name = groupName
    THEN [i \in 1..Len(groups) |->
             IF groups[i].name = groupName
             THEN [groups[i] EXCEPT !.columns = Append(@, fieldName)]
             ELSE groups[i]]
    ELSE Append(groups, [name |-> groupName, columns |-> <<fieldName>>])

RECURSIVE PushGroups(_, _, _)
PushGroups(groups, groupNames, fieldName) ==
    IF groupNames = <<>> THEN groups
    ELSE PushGroups(PushGroup(groups, Head(groupNames), fieldName), Tail(groupNames), fieldName)

\* the body of "for (const part of parts)" that books the indexes of one part
IndexPart(res, part, fieldName) ==
    LET Index(ip) ==
            IF part = "index" \/ startsWith(part, "index/")
            THEN IF Len(ip) >= 2 /\ ip[2] # ""
                 THEN [res EXCEPT !.compositeIndexes =
                                      PushGroups(@, split(ip[2], ","), fieldName)]
                 ELSE IF SeqIncludes(res.individualIndexes, fieldName) THEN res
                 ELSE [res EXCEPT !.individualIndexes = Append(@, fieldName)]
            ELSE res
        Unique(r, ip) ==
            IF startsWith(part, "unique/") /\ Len(ip) >= 2 /\ ip[2] # ""
            THEN [r EXCEPT !.compositeUniqueIndexes =
                               PushGroups(@, split(ip[2], ","), fieldName)]
            ELSE r
        Both(ip) == Unique(Index(ip), ip)
    IN  Both(split(part, "/"))

RECURSIVE IndexParts(_, _, _)
IndexParts(res, parts, fieldName) ==
    IF parts = <<>> THEN res
    ELSE IndexParts(IndexPart(res, Head(parts), fieldName), Tail(parts), fieldName)

\* one iteration of "for (const [fieldName, rawValue] of Object.entries(fields))"
ParseField(res, entry, customFields) ==
    LET fieldName == entry.k
        Known(typeAlias) == typeAlias \in DOMAIN customFields
        \* customDef?.Type ?? typeAlias
        TypeOf(typeAlias) == IF Known(typeAlias) THEN customFields[typeAlias].Type ELSE typeAlias
        DefaultOf(explicit, typeAlias) ==
            IF explicit = Null /\ Known(typeAlias) /\ customFields[typeAlias].Default # ""
            THEN Some(customFields[typeAlias].Default)
            ELSE explicit
        Definition(parts, typeAlias, typeReal) ==
            [field |-> fieldName,
             type |-> toUpperCase(typeReal),
             nullable |-> IF typeAlias = "id" \/ includes(toUpperCase(typeReal), "SERIAL")
                          THEN ""
                          ELSE IF SeqIncludes(parts, "required") THEN "NOT NULL" ELSE "NULL",
             key |-> IF Known(typeAlias) /\ customFields[typeAlias].Key # ""
                     THEN customFields[typeAlias].Key
                     ELSE IF SeqIncludes(parts, "unique") THEN "UNI" ELSE "",
             defaultValue |-> DefaultOf(FindDefault(parts), typeAlias),
             extra |-> toUpperCase(IF Known(typeAlias) THEN customFields[typeAlias].Extra ELSE "")]
        Typed(parts, typeAlias, lengthStr) ==
            Definition(parts, typeAlias,
                       IF lengthStr # ""
                       THEN RemoveLength(TypeOf(typeAlias)) \o "(" \o lengthStr \o ")"
                       ELSE TypeOf(typeAlias))
        TypePart(parts, tp) == Typed(parts, tp[1], IF Len(tp) >= 2 THEN tp[2] ELSE "")
        \* result.fields[fieldName] = ...: a key keeps its first position
        WithField(fd) ==
            IF \E i \in 1..Len(res.fields) : res.fields[i].field = fieldName
            THEN [res EXCEPT !.fields =
                      [i \in 1..Len(@) |-> IF @[i].field = fieldName THEN fd ELSE @[i]]]
            ELSE [res EXCEPT !.fields = Append(@, fd)]
        Parts(parts) ==
            IndexParts(WithField(TypePart(parts, split(parts[1], "/"))), parts, fieldName)
    IN  IF startsWith(entry.k, "~") THEN res
        ELSE IF ~ entry.str THEN res
        ELSE Parts(splitSpace(entry.v))

RECURSIVE ParseFields(_, _, _)
ParseFields(res, entries, customFields) ==
    IF entries = <<>> THEN res
    ELSE ParseFields(ParseField(res, Head(entries), customFields), Tail(entries), customFields)

EmptySchema ==
    [fields |-> <<>>, individualIndexes |-> <<>>,
     compositeIndexes |-> <<>>, compositeUniqueIndexes |-> <<>>]

parseSchema(fields, customFields) == ParseFields(EmptySchema, fields, customFields)

\* fields[k]: the definition of column k, or null
FieldOf(schema, k) ==
    IF \E i \in 1..Len(schema.fields) : schema.fields[i].field = k
    THEN Some(schema.fields[CHOOSE i \in 1..Len(schema.fields) : schema.fields[i].field = k])
    ELSE Null

(***************************************************************************)
(* sqlGenerator.ts                                                         *)
(*                                                                         *)
(* A QueuedQuery is [type, table, sql].  The SQL text is kept as its       *)
(* parts: the statement form op, the table it names, the column, index,    *)
(* constraint or database name, the index columns, the type or default     *)
(* expression, and the column definitions of CREATE TABLE / ADD COLUMN.    *)
(***************************************************************************)
Query(type, table, op, name, cols, arg, defs) ==
    [type |-> type, table |-> table,
     sql |-> [op |-> op, on |-> table, name |-> name, cols |-> cols, arg |-> arg, defs |-> defs]]

\* one column of CREATE TABLE: "k" TYPE [NULL|NOT NULL] [DEFAULT ..] [extra] [PRIMARY KEY]
CreateColumnDef(v) ==
    [name |-> v.field,
     type |-> v.type,
     nullable |-> IF v.nullable = "NOT NULL" THEN "NOT NULL"
                  ELSE IF v.nullable = "NULL" THEN "NULL" ELSE "",
     dflt |-> IF ~ includes(v.type, "SERIAL") THEN buildDefaultClause(v.defaultValue, v.type) ELSE "",
     extra |-> v.extra,
     pk |-> v.key = "PRI"]

UniqueQuery(table, field) ==
    Query("ADD_INDEX", table, "ADD CONSTRAINT UNIQUE", table \o "_" \o field \o "_unique",
          <<field>>, "", <<>>)

IndexQuery(table, field) ==
    Query("ADD_INDEX", table, "CREATE INDEX", table \o "_" \o field \o "_idx", <<field>>, "", <<>>)

CompositeIndexQuery(table, group) ==
    Query("ADD_INDEX", table, "CREATE INDEX", table \o "_" \o group.name \o "_idx",
          group.columns, "", <<>>)

CompositeUniqueQuery(table, group) ==
    Query("ADD_INDEX", table, "CREATE UNIQUE INDEX", table \o "_" \o group.name \o "_unique_idx",
          group.columns, "", <<>>)

generateCreateTable_IndexesFirst(table, schema) ==
    <<Query("CREATE_TABLE", table, "CREATE TABLE", table, <<>>, "",
            [i \in 1..Len(schema.fields) |-> CreateColumnDef(schema.fields[i])])>>
    \o [i \in 1..Len(schema.individualIndexes) |->
           IndexQuery(table, schema.individualIndexes[i])]
    \o [i \in 1..Len(SelectSeq(schema.fields, LAMBDA v : v.key = "UNI")) |->
           UniqueQuery(table, SelectSeq(schema.fields, LAMBDA v : v.key = "UNI")[i].field)]
    \o [i \in 1..Len(schema.compositeIndexes) |->
           CompositeIndexQuery(table, schema.compositeIndexes[i])]
    \o [i \in 1..Len(schema.compositeUniqueIndexes) |->
           CompositeUniqueQuery(table, schema.compositeUniqueIndexes[i])]

generateCreateTable(table, schema) ==
    LET fields == schema.fields
        uniqueFields == SelectSeq(fields, LAMBDA v : v.key = "UNI")
    IN  <<Query("CREATE_TABLE", table, "CREATE TABLE", table, <<>>, "",
                [i \in 1..Len(fields) |-> CreateColumnDef(fields[i])])>>
        \o [i \in 1..Len(uniqueFields) |-> UniqueQuery(table, uniqueFields[i].field)]
        \o [i \in 1..Len(schema.individualIndexes) |->
               IndexQuery(table, schema.individualIndexes[i])]
        \o [i \in 1..Len(schema.compositeIndexes) |->
               CompositeIndexQuery(table, schema.compositeIndexes[i])]
        \o [i \in 1..Len(schema.compositeUniqueIndexes) |->
               CompositeUniqueQuery(table, schema.compositeUniqueIndexes[i])]

generateDropTable(table) == Query("DROP_TABLE", table, "DROP TABLE", table, <<>>, "", <<>>)

generateCreateDatabase(name) == Query("CREATE_DB", "", "CREATE DATABASE", name, <<>>, "", <<>>)

(***************************************************************************)
(* diffEngine.ts                                                           *)
(*                                                                         *)
(* A DiffContext is [table, schema, currentColumns, existingIndexes,       *)
(* existingUniques]: currentColumns the catalog rows keyed by column_name  *)
(* (a sequence in row order), the other two the sequences of names.        *)
(***************************************************************************)
\* currentColumns[k]: the row of column k, or null
ColumnOf(currentColumns, k) ==
    IF \E i \in 1..Len(currentColumns) : currentColumns[i].column_name = k
    THEN Some(currentColumns[CHOOSE i \in 1..Len(currentColumns) :
                                 currentColumns[i].column_name = k])
    ELSE Null

\* configType.match(/^(\w+)(?:\((\d+(?:,\d+)?)\))?$/): [base, length] or null
TypeMatch(configType) ==
    LET \* base is the longest prefix of word characters, rest what follows it
        Groups(base, rest) ==
            IF base = "" THEN Null
            ELSE IF rest = "" THEN Some([base |-> base, length |-> Null])
            ELSE IF /\ Len(rest) >= 3
                    /\ Head(rest) = "("
                    /\ Ch(rest, Len(rest)) = ")"
                    /\ IsLengthSpec(Unwrap(rest))
            THEN Some([base |-> base, length |-> Some(Unwrap(rest))])
            ELSE Null
        Word(n) == Groups(SubSeq(configType, 1, n), SubSeq(configType, n + 1, Len(configType)))
        Prefix(nonword) ==
            Word(IF nonword = {} THEN Len(configType)
                 ELSE (CHOOSE i \in nonword : \A j \in nonword : i <= j) - 1)
    IN  Prefix({i \in 1..Len(configType) : Ch(configType, i) \notin WordChars})

AlterQuery(table, op, colName, arg) ==
    Query("ALTER_COLUMN", table, op, colName, <<>>, arg, <<>>)

checkTypeMismatch(table, colName, configType, dbCol) ==
    LET dbType == toLowerCase(dbCol.data_type)
        dbLength == dbCol.character_maximum_length
        dbPrecision == dbCol.numeric_precision
        dbScale == dbCol.numeric_scale
        Alter == <<AlterQuery(table, "ALTER TYPE", colName, configType)>>
        \* cfg is configLength split at the comma
        Numeric(cfg) ==
            IF \/ dbPrecision # Null /\ String(dbPrecision[1]) # cfg[1]
               \/ /\ Len(cfg) >= 2
                  /\ cfg[2] # ""
                  /\ dbScale # Null
                  /\ String(dbScale[1]) # cfg[2]
            THEN Alter
            ELSE <<>>
        Character(cfg) ==
            IF dbLength # Null /\ String(dbLength[1]) # cfg[1] THEN Alter ELSE <<>>
        Compare(configBaseType, configLength) ==
            IF MappedType(configBaseType) # dbType THEN Alter
            ELSE IF configLength # Null
            THEN IF dbType \in {"numeric", "decimal"} \/ configBaseType \in {"NUMERIC", "DECIMAL"}
                 THEN Numeric(split(configLength[1], ","))
                 ELSE Character(split(configLength[1], ","))
            ELSE <<>>
        Matched(typeMatch) ==
            Compare(IF typeMatch # Null THEN typeMatch[1].base ELSE split(configType, "(")[1],
                    IF typeMatch # Null THEN typeMatch[1].length ELSE Null)
    IN  Matched(TypeMatch(configType))

checkDefaultMismatch(table, colName, fieldDef, dbCol) ==
    LET typeUpper == fieldDef.type
        dbDefaultRaw == IF dbCol.column_default = Null THEN "" ELSE dbCol.column_default[1]
        Compare(configDefaultSql, cfgDefaultNorm, dbDefaultNorm) ==
            IF cfgDefaultNorm = "" /\ dbDefaultNorm # ""
            THEN <<AlterQuery(table, "DROP DEFAULT", colName, "")>>
            ELSE IF cfgDefaultNorm # "" /\ dbDefaultNorm # cfgDefaultNorm
            THEN <<AlterQuery(table, "SET DEFAULT", colName, configDefaultSql)>>
            ELSE <<>>
        Normalized(configDefaultSql) ==
            Compare(configDefaultSql,
                    normalizeDbDefaultForCompare(configDefaultSql),
                    normalizeDbDefaultForCompare(dbDefaultRaw))
        Clause(configDefaultClause) ==
            Normalized(IF configDefaultClause # ""
                       THEN trim(substring(configDefaultClause, Len("DEFAULT ")))
                       ELSE "")
    IN  IF includes(typeUpper, "SERIAL") THEN <<>>
        ELSE IF fieldDef.key = "PRI" /\ includes(toLowerCase(dbDefaultRaw), "nextval(") THEN <<>>
        ELSE Clause(buildDefaultClause(fieldDef.defaultValue, typeUpper))

checkNullableMismatch(table, colName, fieldDef, dbCol) ==
    IF includes(fieldDef.type, "SERIAL") THEN <<>>
    ELSE IF fieldDef.nullable = "" THEN <<>>
    ELSE LET yamlWantsNotNull == fieldDef.nullable = "NOT NULL"
             dbIsNotNull == dbCol.is_nullable = "NO"
         IN  IF yamlWantsNotNull /\ ~ dbIsNotNull
             THEN <<AlterQuery(table, "SET NOT NULL", colName, "")>>
             ELSE IF ~ yamlWantsNotNull /\ dbIsNotNull
             THEN <<AlterQuery(table, "DROP NOT NULL", colName, "")>>
             ELSE <<>>

\* "1. DROP columns no longer in YAML"
DropColumnQueries(ctx) ==
    LET gone == SelectSeq(ctx.currentColumns,
                          LAMBDA c : FieldOf(ctx.schema, c.column_name) = Null)
    IN  [i \in 1..Len(gone) |->
            Query("DROP_COLUMN", ctx.table, "DROP COLUMN", gone[i].column_name, <<>>, "", <<>>)]

\* variant: the default clause is built for every type
AddColumnDef_WithDefault(v) ==
    [name |-> v.field,
     type |-> v.type,
     nullable |-> v.nullable,
     dflt |-> buildDefaultClause(v.defaultValue, v.type),
     extra |-> v.extra,
     pk |-> FALSE]

\* the column definition of ADD COLUMN: "k" TYPE nullable defaultClause extra
AddColumnDef(v) ==
    [name |-> v.field,
     type |-> v.type,
     nullable |-> v.nullable,
     dflt |-> IF ~ includes(v.type, "SERIAL") THEN buildDefaultClause(v.defaultValue, v.type) ELSE "",
     extra |-> v.extra,
     pk |-> FALSE]

\* "2. ADD new columns"
AddColumnQueries(ctx) ==
    LET new == SelectSeq(ctx.schema.fields,
                         LAMBDA v : ColumnOf(ctx.currentColumns, v.field) = Null)
    IN  [i \in 1..Len(new) |->
            Query("ADD_COLUMN", ctx.table, "ADD COLUMN", new[i].field, <<>>, "",
                  <<AddColumnDef(new[i])>>)]

\* "3. ALTER column TYPE / DEFAULT / NULLABLE": the three checks of one kept column
AlterColumnQueries(ctx, v) ==
    LET dbCol == ColumnOf(ctx.currentColumns, v.field)[1]
    IN  checkTypeMismatch(ctx.table, v.field, v.type, dbCol)
        \o checkDefaultMismatch(ctx.table, v.field, v, dbCol)
        \o checkNullableMismatch(ctx.table, v.field, v, dbCol)

\* variant: the new columns are added before the old ones are dropped
diffColumns_AddFirst(ctx) ==
    LET kept == SelectSeq(ctx.schema.fields,
                          LAMBDA v : ColumnOf(ctx.currentColumns, v.field) # Null)
    IN  AddColumnQueries(ctx)
        \o DropColumnQueries(ctx)
        \o Concat([i \in 1..Len(kept) |-> AlterColumnQueries(ctx, kept[i])])

diffColumns(ctx) ==
    LET kept == SelectSeq(ctx.schema.fields,
                          LAMBDA v : ColumnOf(ctx.currentColumns, v.field) # Null)
    IN  DropColumnQueries(ctx)
        \o AddColumnQueries(ctx)
        \o Concat([i \in 1..Len(kept) |-> AlterColumnQueries(ctx, kept[i])])

ExpectedUniqueNames(ctx) ==
    LET uni == SelectSeq(ctx.schema.fields, LAMBDA v : v.key = "UNI")
    IN  [i \in 1..Len(uni) |-> ctx.table \o "_" \o uni[i].field \o "_unique"]

diffConstraints(ctx) ==
    LET existingUniqueNames == ctx.existingUniques
        expectedUniqueNames == ExpectedUniqueNames(ctx)
        orphaned == SelectSeq(existingUniqueNames,
                              LAMBDA u : ~ SeqIncludes(expectedUniqueNames, u))
        missing == SelectSeq(ctx.schema.fields,
                             LAMBDA v : /\ v.key = "UNI"
                                        /\ ~ SeqIncludes(existingUniqueNames,
                                                         ctx.table \o "_" \o v.field \o "_unique"))
    IN  [i \in 1..Len(orphaned) |->
            Query("RAW", ctx.table, "DROP CONSTRAINT", orphaned[i], <<>>, "", <<>>)]
        \o [i \in 1..Len(missing) |-> UniqueQuery(ctx.table, missing[i].field)]

\* "Build list of all expected indexes"
KeyIndexNames(table, v) ==
    (IF v.key = "UNI" THEN <<table \o "_" \o v.field \o "_unique">> ELSE <<>>)
    \o (IF v.key = "PRI" THEN <<table \o "_pkey">> ELSE <<>>)

ExpectedIndexes(ctx) ==
    LET s == ctx.schema
        t == ctx.table
    IN  [i \in 1..Len(s.individualIndexes) |-> t \o "_" \o s.individualIndexes[i] \o "_idx"]
        \o [i \in 1..Len(s.compositeIndexes) |-> t \o "_" \o s.compositeIndexes[i].name \o "_idx"]
        \o [i \in 1..Len(s.compositeUniqueIndexes) |->
               t \o "_" \o s.compositeUniqueIndexes[i].name \o "_unique_idx"]
        \o Concat([i \in 1..Len(s.fields) |-> KeyIndexNames(t, s.fields[i])])

diffIndexes(ctx) ==
    LET s == ctx.schema
        t == ctx.table
        existingIndexNames == ctx.existingIndexes
        expectedIndexes == ExpectedIndexes(ctx)
        orphaned == SelectSeq(existingIndexNames, LAMBDA n : ~ SeqIncludes(expectedIndexes, n))
        individual == SelectSeq(s.individualIndexes,
                          LAMBDA f : ~ SeqIncludes(existingIndexNames, t \o "_" \o f \o "_idx"))
        composite == SelectSeq(s.compositeIndexes,
                          LAMBDA g : ~ SeqIncludes(existingIndexNames, t \o "_" \o g.name \o "_idx"))
        compositeUnique == SelectSeq(s.compositeUniqueIndexes,
                          LAMBDA g : ~ SeqIncludes(existingIndexNames,
                                                   t \o "_" \o g.name \o "_unique_idx"))
    IN  [i \in 1..Len(orphaned) |->
            Query("DROP_INDEX", t, "DROP INDEX", orphaned[i], <<>>, "", <<>>)]
        \o [i \in 1..Len(individual) |-> IndexQuery(t, individual[i])]
        \o [i \in 1..Len(composite) |-> CompositeIndexQuery(t, composite[i])]
        \o [i \in 1..Len(compositeUnique) |-> CompositeUniqueQuery(t, compositeUnique[i])]

\* variant: the index work comes before the column work
generateUpdateTable_IndexesFirst(ctx) ==
    diffConstraints(ctx) \o diffIndexes(ctx) \o diffColumns(ctx)

generateUpdateTable(ctx) == diffColumns(ctx) \o diffConstraints(ctx) \o diffIndexes(ctx)

(***************************************************************************)
(* The PostgreSQL server behind the executor port.                         *)
(*                                                                         *)
(* A database is [exists, tables]; a table is [name, columns, indexes]     *)
(* with columns the information_schema.columns rows in ordinal order       *)
(* (plus pk: the column is part of the primary key) and indexes the        *)
(* pg_indexes rows in creation order, each [indexname, cols, con] with     *)
(* con the type of the constraint the index backs ("u", "p") or "".        *)
(***************************************************************************)
NoDatabase == [exists |-> FALSE, tables |-> <<>>]
EmptyDatabase == [exists |-> TRUE, tables |-> <<>>]

HasTable(db, name) == \E i \in 1..Len(db.tables) : db.tables[i].name = name
TableIx(db, name) == CHOOSE i \in 1..Len(db.tables) : db.tables[i].name = name
HasColumn(tbl, c) == \E i \in 1..Len(tbl.columns) : tbl.columns[i].column_name = c
HasIndex(tbl, n) == \E i \in 1..Len(tbl.indexes) : tbl.indexes[i].indexname = n
\* index and table names share one namespace per schema
RelationExists(db, n) ==
    \E i \in 1..Len(db.tables) : db.tables[i].name = n \/ HasIndex(db.tables[i], n)

SerialTypes == {"SERIAL", "SMALLSERIAL", "BIGSERIAL", "SERIAL2", "SERIAL4", "SERIAL8"}
CharTypes == {"VARCHAR", "CHAR"}
NumericTypes == {"NUMERIC", "DECIMAL"}
IntegerBits == [smallint |-> 16, integer |-> 32, bigint |-> 64]

\* how the server reads a type as written in a statement, and what the catalog
\* then reports: data_type, character_maximum_length, numeric_precision, numeric_scale
PgType(typeText) ==
    LET array == endsWith(typeText, "[]")
        Plain(base, args, known, dataType) ==
            [ok |-> known,
             serial |-> base \in SerialTypes,
             data_type |-> dataType,
             character_maximum_length |->
                 IF base \in CharTypes /\ args # <<>> THEN Some(parseInt(args[1]))
                 ELSE IF base = "CHAR" THEN Some(1) ELSE Null,
             numeric_precision |->
                 IF base \in NumericTypes
                 THEN (IF args # <<>> THEN Some(parseInt(args[1])) ELSE Null)
                 ELSE IF dataType \in DOMAIN IntegerBits THEN Some(IntegerBits[dataType])
                 ELSE Null,
             numeric_scale |->
                 IF base \in NumericTypes
                 THEN (IF Len(args) >= 2 THEN Some(parseInt(args[2]))
                       ELSE IF args # <<>> THEN Some(0) ELSE Null)
                 ELSE IF dataType \in DOMAIN IntegerBits THEN Some(0)
                 ELSE Null]
        Known(base, args, known) ==
            Plain(base, args, known, IF known THEN POSTGRES_TYPE_DICTIONARY[base] ELSE "")
        Element(base, args) ==
            Known(base, args, base \in DOMAIN POSTGRES_TYPE_DICTIONARY /\ base # "DOUBLE")
        Matched(m) ==
            Element(IF m = Null THEN "" ELSE m[1].base,
                    IF m = Null \/ m[1].length = Null THEN <<>> ELSE split(m[1].length[1], ","))
        Array(plain) ==
            IF array
            THEN [plain EXCEPT !.ok = @ /\ ~ plain.serial, !.data_type = "ARRAY",
                               !.character_maximum_length = Null,
                               !.numeric_precision = Null, !.numeric_scale = Null]
            ELSE plain
    IN  Array(Matched(TypeMatch(IF array THEN SubSeq(typeText, 1, Len(typeText) - 2)
                                ELSE typeText)))

\* the catalog's column_default for a column of type typeText, read by the server
\* as t, given DEFAULT expr
PgDefault(expr, typeText, t) ==
    IF expr = "" THEN Null
    ELSE IF IsWrapped(expr, "'")
    THEN Some(expr \o "::" \o (IF t.data_type = "ARRAY" THEN toLowerCase(typeText)
                               ELSE t.data_type))
    ELSE IF toLowerCase(expr) \in {"true", "false"} THEN Some(toLowerCase(expr))
    ELSE Some(expr)

\* the catalog row of a column created from a column definition
PgColumn(table, d) ==
    LET Row(t) ==
            [column_name |-> d.name,
             data_type |-> t.data_type,
             is_nullable |-> IF d.nullable = "NOT NULL" \/ d.pk \/ t.serial THEN "NO" ELSE "YES",
             character_maximum_length |-> t.character_maximum_length,
             column_default |->
                 IF t.serial
                 THEN Some("nextval('" \o table \o "_" \o d.name \o "_seq'::regclass)")
                 ELSE PgDefault(IF d.dflt = "" THEN "" ELSE substring(d.dflt, Len("DEFAULT ")),
                                d.type, t),
             numeric_precision |-> t.numeric_precision,
             numeric_scale |-> t.numeric_scale,
             pk |-> d.pk]
    IN  Row(PgType(d.type))

ColumnDefOk(d) == PgType(d.type).ok /\ d.extra = ""

\* whether the server accepts the statement in database db
PgAccepts(db, sql) ==
    IF sql.op = "CREATE DATABASE" THEN ~ db.exists
    ELSE IF ~ db.exists THEN FALSE
    ELSE IF sql.op = "CREATE TABLE"
    THEN /\ ~ RelationExists(db, sql.name)
         /\ sql.defs # <<>>
         /\ \A i \in 1..Len(sql.defs) : ColumnDefOk(sql.defs[i])
         /\ \A i, j \in 1..Len(sql.defs) : sql.defs[i].name = sql.defs[j].name => i = j
         /\ Cardinality({i \in 1..Len(sql.defs) : sql.defs[i].pk}) <= 1
    ELSE IF sql.op = "DROP TABLE" THEN TRUE
    ELSE IF sql.op = "DROP INDEX"
    THEN \A i \in 1..Len(db.tables) : \A j \in 1..Len(db.tables[i].indexes) :
             db.tables[i].indexes[j].indexname = sql.name => db.tables[i].indexes[j].con = ""
    ELSE IF ~ HasTable(db, sql.on) THEN FALSE
    ELSE
    LET tbl == db.tables[TableIx(db, sql.on)]
        Castable(t) == t.ok /\ ~ t.serial
    IN  IF sql.op = "ADD COLUMN"
        THEN ColumnDefOk(sql.defs[1]) /\ ~ HasColumn(tbl, sql.name)
        ELSE IF sql.op \in {"CREATE INDEX", "CREATE UNIQUE INDEX", "ADD CONSTRAINT UNIQUE"}
        THEN /\ ~ RelationExists(db, sql.name)
             /\ \A i \in 1..Len(sql.cols) : HasColumn(tbl, sql.cols[i])
        ELSE IF sql.op = "DROP CONSTRAINT"
        THEN \E i \in 1..Len(tbl.indexes) :
                 tbl.indexes[i].indexname = sql.name /\ tbl.indexes[i].con # ""
        ELSE IF ~ HasColumn(tbl, sql.name) THEN FALSE
        ELSE IF sql.op = "ALTER TYPE" THEN Castable(PgType(sql.arg))
        ELSE IF sql.op = "DROP NOT NULL"
        THEN ~ ColumnOf(tbl.columns, sql.name)[1].pk
        ELSE TRUE

\* the catalog row of column c after an accepted ALTER COLUMN statement
PgAlterColumn(c, sql) ==
    LET Retype(t) ==
            [c EXCEPT !.data_type = t.data_type,
                      !.character_maximum_length = t.character_maximum_length,
                      !.numeric_precision = t.numeric_precision,
                      !.numeric_scale = t.numeric_scale]
    IN  IF sql.op = "ALTER TYPE" THEN Retype(PgType(sql.arg))
        ELSE IF sql.op = "SET DEFAULT"
        THEN [c EXCEPT !.column_default =
                 IF IsWrapped(sql.arg, "'") THEN Some(sql.arg \o "::" \o c.data_type)
                 ELSE IF toLowerCase(sql.arg) \in {"true", "false"}
                 THEN Some(toLowerCase(sql.arg))
                 ELSE Some(sql.arg)]
        ELSE IF sql.op = "DROP DEFAULT" THEN [c EXCEPT !.column_default = Null]
        ELSE IF sql.op = "SET NOT NULL" THEN [c EXCEPT !.is_nullable = "NO"]
        ELSE IF sql.op = "DROP NOT NULL" THEN [c EXCEPT !.is_nullable = "YES"]
        ELSE c

\* the table after an accepted statement that names it
PgAlterTable(tbl, sql) ==
    IF sql.op = "ADD COLUMN"
    THEN [tbl EXCEPT !.columns = Append(@, PgColumn(tbl.name, sql.defs[1]))]
    ELSE IF sql.op = "DROP COLUMN"
    THEN [tbl EXCEPT !.columns = SelectSeq(@, LAMBDA c : c.column_name # sql.name),
                     !.indexes = SelectSeq(@, LAMBDA x : ~ SeqIncludes(x.cols, sql.name))]
    ELSE IF sql.op = "ADD CONSTRAINT UNIQUE"
    THEN [tbl EXCEPT !.indexes = Append(@, [indexname |-> sql.name, cols |-> sql.cols, con |-> "u"])]
    ELSE IF sql.op \in {"CREATE INDEX", "CREATE UNIQUE INDEX"}
    THEN [tbl EXCEPT !.indexes = Append(@, [indexname |-> sql.name, cols |-> sql.cols, con |-> ""])]
    ELSE IF sql.op = "DROP CONSTRAINT"
    THEN [tbl EXCEPT !.indexes = SelectSeq(@, LAMBDA x : x.indexname # sql.name)]
    ELSE [tbl EXCEPT !.columns =
              [i \in 1..Len(@) |->
                  IF @[i].column_name = sql.name THEN PgAlterColumn(@[i], sql) ELSE @[i]]]

PgCreateTable(sql) ==
    LET pks == SelectSeq(sql.defs, LAMBDA d : d.pk)
    IN  [name |-> sql.name,
         columns |-> [i \in 1..Len(sql.defs) |-> PgColumn(sql.name, sql.defs[i])],
         indexes |-> [i \in 1..Len(pks) |->
                         [indexname |-> sql.name \o "_pkey", cols |-> <<pks[i].name>>, con |-> "p"]]]

\* the database after an accepted statement
PgApply(db, sql) ==
    IF sql.op = "CREATE DATABASE" THEN EmptyDatabase
    ELSE IF sql.op = "CREATE TABLE" THEN [db EXCEPT !.tables = Append(@, PgCreateTable(sql))]
    ELSE IF sql.op = "DROP TABLE"
    THEN [db EXCEPT !.tables = SelectSeq(@, LAMBDA t : t.name # sql.name)]
    ELSE IF sql.op = "DROP INDEX"
    THEN [db EXCEPT !.tables =
             [i \in 1..Len(@) |->
                 [@[i] EXCEPT !.indexes = SelectSeq(@, LAMBDA x : x.indexname # sql.name)]]]
    ELSE [db EXCEPT !.tables[TableIx(db, sql.on)] = PgAlterTable(@, sql)]

\* the three catalog reads of one table, as the rows the queries return
ReflectColumns(tbl) == tbl.columns
ReflectIndexes(tbl) == [i \in 1..Len(tbl.indexes) |-> tbl.indexes[i].indexname]
ReflectUniques(tbl) ==
    LET u == SelectSeq(tbl.indexes, LAMBDA x : x.con = "u")
    IN  [i \in 1..Len(u) |-> u[i].indexname]
ListTables(db) == [i \in 1..Len(db.tables) |-> db.tables[i].name]

(***************************************************************************)
(* Configuration: CUSTOM_FIELDS and the targets (README.md, cli.ts init).  *)
(* An alias without Default, Key or Extra has "" there.                    *)
(***************************************************************************)
Alias(type, dflt, key) == [Type |-> type, Default |-> dflt, Key |-> key, Extra |-> ""]

CustomFields ==
    [id |-> Alias("serial", "", "PRI"),
     str |-> Alias("varchar(64)", "", ""),
     text |-> Alias("text", "", ""),
     int |-> Alias("integer", "", ""),
     float |-> Alias("real", "", ""),
     date |-> Alias("timestamp", "", ""),
     email |-> Alias("varchar(128)", "", ""),
     now |-> Alias("timestamp", "now()", ""),
     pid |-> Alias("varchar(12)", "\"left\"(md5((random())::text), 12)", "UNI"),
     uid |-> Alias("uuid", "", "PRI")]

\* the write node of each entry of postgres.DB
Targets ==
    <<[id |-> "main", NAME |-> "app", PREF |-> "app_", TENANT_KEYS |-> FALSE,
       USER |-> "u", HOST |-> <<"h">>, PORT |-> "5432"],
      [id |-> "logs", NAME |-> "logs", PREF |-> "", TENANT_KEYS |-> FALSE,
       USER |-> "u", HOST |-> <<"h">>, PORT |-> "5432"]>>

(***************************************************************************)
(* schemaEngine.ts: generateDiff                                           *)
(*                                                                         *)
(* A declaration file is [parsed, entries]: parsed is false when           *)
(* YAML.parse throws or yields no object.  A table entry is                *)
(* [name, obj, cols]: obj tells whether its value is an object, cols is    *)
(* the field map.  A YAML value that is not a string is kept as its        *)
(* literal text with str false.                                            *)
(***************************************************************************)
Truthy(e) == IF e.str THEN e.v # "" ELSE e.v \notin {"false", "null", "0"}

\* tableCols["~ignore"]
Ignored(cols) == \E i \in 1..Len(cols) : cols[i].k = "~ignore" /\ Truthy(cols[i])

\* "Apply prefix: ~tableName -> PREF + tableName"
PrefixedName(tableName, config) ==
    IF startsWith(tableName, "~") /\ config.PREF # ""
    THEN config.PREF \o substring(tableName, 1)
    ELSE tableName

\* the reflection of one live table into a DiffContext
ReflectTable(tableName, schema, tbl) ==
    [table |-> tableName, schema |-> schema,
     currentColumns |-> ReflectColumns(tbl),
     existingIndexes |-> ReflectIndexes(tbl),
     existingUniques |-> ReflectUniques(tbl)]

\* variant: the catalog reads never throw
Thrown_Never(tableName, unreadable) == FALSE

\* "try { ... } catch (err) { log.error(`Error analyzing table ...`) }": a catalog read
\* of the table threw
Thrown(tableName, unreadable) == tableName \in unreadable

\* variant: an ignored table is not booked in tablesNew
TableEntry_IgnoredUnnamed(acc, entry, config, db, tablesReal, unreadable) ==
    LET Parsed(named, tableName, schema) ==
            IF schema.fields = <<>> THEN named
            ELSE IF SeqIncludes(tablesReal, tableName)
            THEN [named EXCEPT !.allQueries =
                      @ \o generateUpdateTable(
                               ReflectTable(tableName, schema, db.tables[TableIx(db, tableName)]))]
            ELSE [named EXCEPT !.allQueries = @ \o generateCreateTable(tableName, schema)]
        Named(tableName) ==
            Parsed([acc EXCEPT !.tablesNew = Append(@, tableName)], tableName,
                   parseSchema(entry.cols, CustomFields))
    IN  IF ~ entry.obj \/ Ignored(entry.cols) THEN acc
        ELSE Named(PrefixedName(entry.name, config))

\* one iteration of "for (let [tableName, tableCols] of Object.entries(data))";
\* acc is [allQueries, tablesNew], unreadable the tables whose catalog reads throw
TableEntry(acc, entry, config, db, tablesReal, unreadable) ==
    LET \* "UPDATE": tbl is the live table the catalog reads describe
        Update(named, tableName, schema, tbl) ==
            IF Len(ReflectColumns(tbl)) > 0
            THEN [named EXCEPT !.allQueries =
                      @ \o generateUpdateTable(ReflectTable(tableName, schema, tbl))]
            ELSE named
        \* named is acc after tablesNew.push(tableName)
        Parsed(named, tableName, schema) ==
            IF Ignored(entry.cols) THEN named
            ELSE IF schema.fields = <<>> THEN named
            ELSE IF SeqIncludes(tablesReal, tableName)
            THEN IF Thrown(tableName, unreadable) THEN named
                 ELSE Update(named, tableName, schema, db.tables[TableIx(db, tableName)])
            ELSE [named EXCEPT !.allQueries = @ \o generateCreateTable(tableName, schema)]
        Named(tableName) ==
            Parsed([acc EXCEPT !.tablesNew = Append(@, tableName)], tableName,
                   parseSchema(entry.cols, CustomFields))
    IN  IF ~ entry.obj THEN acc
        ELSE Named(PrefixedName(entry.name, config))

RECURSIVE TableEntries(_, _, _, _, _, _)
TableEntries(acc, entries, config, db, tablesReal, unreadable) ==
    IF entries = <<>> THEN acc
    ELSE TableEntries(TableEntry(acc, Head(entries), config, db, tablesReal, unreadable),
                      Tail(entries), config, db, tablesReal, unreadable)

\* "for (const fn of files)": a file that does not parse is skipped
RECURSIVE SchemaFiles(_, _, _, _, _, _)
SchemaFiles(acc, files, config, db, tablesReal, unreadable) ==
    IF files = <<>> THEN acc
    ELSE SchemaFiles(IF Head(files).parsed
                     THEN TableEntries(acc, Head(files).entries, config, db, tablesReal, unreadable)
                     ELSE acc,
                     Tail(files), config, db, tablesReal, unreadable)

\* variant: the listing query is taken to succeed
TablesReal_NoFailure(db, listOk) == IF db.exists THEN ListTables(db) ELSE <<>>

\* "2. Fetch existing tables": empty when the query throws
TablesReal(db, listOk) == IF listOk /\ db.exists THEN ListTables(db) ELSE <<>>

\* variant: orphans are dropped without being asked
OrphanQueries_Unasked(tablesReal, tablesNew, dropOrphans) ==
    LET orphans == SelectSeq(tablesReal, LAMBDA t : ~ SeqIncludes(tablesNew, t))
    IN  [i \in 1..Len(orphans) |-> generateDropTable(orphans[i])]

\* "4. Drop orphans"
OrphanQueries(tablesReal, tablesNew, dropOrphans) ==
    IF dropOrphans
    THEN LET orphans == SelectSeq(tablesReal, LAMBDA t : ~ SeqIncludes(tablesNew, t))
         IN  [i \in 1..Len(orphans) |-> generateDropTable(orphans[i])]
    ELSE <<>>

generateDiff(config, db, files, dropOrphans, listOk, unreadable) ==
    LET tablesReal == TablesReal(db, listOk)
        Orphans(acc) == acc.allQueries \o OrphanQueries(tablesReal, acc.tablesNew, dropOrphans)
    IN  Orphans(SchemaFiles([allQueries |-> <<>>, tablesNew |-> <<>>],
                            files, config, db, tablesReal, unreadable))

(***************************************************************************)
(* The life cycle of one table: the declaration of table "t" is written,   *)
(* diffed against the live database, the statements are applied one by     *)
(* one, the declaration is edited, and so on.                              *)
(***************************************************************************)
Field(k, v) == [k |-> k, v |-> v, str |-> TRUE]

ValuesA == {"id", "serial", "uid", "str required index/g", "text[]"}
ValuesB == {"str/32 default/active index", "email unique index/g",
            "numeric(10,2) required default/0 unique/u"}
ValuesC == {"now", "boolean default/true unique/u", "bigserial required default/7"}

FieldMaps ==
    {<<Field("a", va)>> : va \in ValuesA}
    \cup {<<Field("a", va), Field("b", vb)>> : va \in ValuesA, vb \in ValuesB}
    \cup {<<Field("a", va), Field("c", vc)>> : va \in ValuesA, vc \in ValuesC}

TableFile(name, cols) ==
    <<[parsed |-> TRUE, entries |-> <<[name |-> name, obj |-> TRUE, cols |-> cols]>>]>>

NoRun == [against |-> "none", ok |-> TRUE]
NoResult == [executed |-> 0, failed |-> <<>>, total |-> 0]
NoOptions ==
    [dry |-> FALSE, create |-> FALSE, dropOrphans |-> FALSE, yes |-> TRUE, mute |-> FALSE,
     name |-> "", tenant |-> ""]

\* no seeding run
NoSeed == <<>>

\* no function applied on its own
NotApplied == <<>>

InitDiff ==
    /\ decl \in {TableFile("t", cols) : cols \in FieldMaps}
    /\ live = <<EmptyDatabase>>
    /\ opts = NoOptions
    /\ pc = "idle"
    /\ ti = 1
    /\ queries = <<>>
    /\ qi = 0
    /\ inflight = Null
    /\ result = NoResult
    /\ wire = <<>>
    /\ run = NoRun
    /\ prev = "none"
    /\ budget = 0
    /\ poolRegistry = {}
    /\ pools = <<>>
    /\ conn = Null
    /\ seed = NoSeed
    /\ applied = NotApplied

\* the declaration file is rewritten between two runs
EditDeclaration ==
    /\ pc = "idle"
    /\ budget < MaxChanges
    /\ \E cols \in FieldMaps :
          /\ decl # TableFile("t", cols)
          /\ decl' = TableFile("t", cols)
    /\ budget' = budget + 1
    /\ prev' = "none"
    /\ UNCHANGED <<live, opts, pc, ti, queries, qi, inflight, result, wire, run>>
    /\ UNCHANGED <<poolRegistry, pools, conn, seed, applied>>

\* what the statement list of a run was computed against
Against(db, name) == IF HasTable(db, name) THEN "update" ELSE "create"

\* generateDiff for the target, all catalog reads succeeding
DiffTable ==
    /\ pc = "idle"
    /\ queries' = generateDiff(Targets[ti], live[ti], decl, opts.dropOrphans, TRUE, {})
    /\ run' = [against |-> Against(live[ti], "t"), ok |-> TRUE]
    /\ qi' = 0
    /\ pc' = "applying"
    /\ UNCHANGED <<decl, live, opts, ti, inflight, result, wire, prev, budget>>
    /\ UNCHANGED <<poolRegistry, pools, conn, seed, applied>>

\* one iteration of "for (const q of queries)": the statement succeeds or throws; it
\* throws when the server rejects it, and a statement the server would accept may fail too
ApplyStatement ==
    /\ pc = "applying"
    /\ qi < Len(queries)
    /\ LET Outcome(accepted) ==
               \E ok \in BOOLEAN :
                  /\ ok => accepted
                  /\ ~ ok => (~ accepted \/ budget < MaxChanges)
                  /\ live' = IF ok THEN [live EXCEPT ![ti] = PgApply(@, queries[qi + 1].sql)]
                             ELSE live
                  /\ run' = [run EXCEPT !.ok = @ /\ ok]
                  /\ budget' = IF ok \/ ~ accepted THEN budget ELSE budget + 1
       IN  Outcome(PgAccepts(live[ti], queries[qi + 1].sql))
    /\ qi' = qi + 1
    /\ UNCHANGED <<decl, opts, pc, ti, queries, inflight, result, wire, prev>>
    /\ UNCHANGED <<poolRegistry, pools, conn, seed, applied>>

\* the loop is over: the run ends
FinishRun ==
    /\ pc = "applying"
    /\ qi = Len(queries)
    /\ prev' = IF run.ok THEN run.against ELSE "failed"
    /\ pc' = "idle"
    /\ queries' = <<>>
    /\ qi' = 0
    /\ run' = NoRun
    /\ UNCHANGED <<decl, live, opts, ti, inflight, result, wire, budget>>
    /\ UNCHANGED <<poolRegistry, pools, conn, seed, applied>>

NextDiff == EditDeclaration \/ DiffTable \/ ApplyStatement \/ FinishRun

SpecDiff == InitDiff /\ [][NextDiff]_vars

(***************************************************************************)
(* The calls of up() considered: the declaration files, the databases the  *)
(* targets start with, and the options.                                    *)
(***************************************************************************)
Meta(k, v) == [k |-> k, v |-> v, str |-> FALSE]
Entry(name, obj, cols) == [name |-> name, obj |-> obj, cols |-> cols]
File(parsed, entries) == [parsed |-> parsed, entries |-> entries]

ColsX == <<Field("a", "id"), Field("b", "str required")>>
ColsY == <<Field("a", "id"), Field("b", "email unique index")>>
ColsIgnored == <<Meta("~ignore", "true")>> \o ColsX
ColsNotIgnored == <<Meta("~ignore", "false")>> \o ColsX
ColsNone == <<Field("~note", "internal"), Meta("a", "1")>>

\* the declarations of table ~x: plain, ignored, with a false ~ignore, with no column,
\* and with no body
EntriesX ==
    {Entry("~x", TRUE, ColsX),
     Entry("~x", TRUE, ColsIgnored),
     Entry("~x", TRUE, ColsNotIgnored),
     Entry("~x", TRUE, ColsNone),
     Entry("~x", FALSE, <<>>)}

Declarations ==
    {<<File(TRUE, <<x>> \o ys)>> \o more :
        x \in EntriesX,
        ys \in {<<>>, <<Entry("y", TRUE, ColsY)>>},
        more \in {<<>>,
                  <<File(TRUE, <<Entry("~x", TRUE, ColsX)>>)>>,
                  <<File(FALSE, <<Entry("s", TRUE, ColsX)>>)>>}}

RECURSIVE ApplyAll(_, _)
ApplyAll(db, list) ==
    IF list = <<>> THEN db ELSE ApplyAll(PgApply(db, Head(list).sql), Tail(list))

\* a database migrated from an older declaration: ~x and y with fewer columns and
\* indexes, and a table s that no declaration names any more
Populated(config) ==
    ApplyAll(EmptyDatabase,
             generateDiff(config, EmptyDatabase,
                          <<File(TRUE, <<Entry("~x", TRUE, <<Field("a", "id")>>),
                                         Entry("y", TRUE, <<Field("a", "id"), Field("b", "email")>>),
                                         Entry("s", TRUE, <<Field("a", "id")>>)>>)>>,
                          FALSE, TRUE, {}))

Options ==
    [dry : BOOLEAN, create : BOOLEAN, dropOrphans : BOOLEAN, yes : BOOLEAN, mute : BOOLEAN,
     name : {"", "logs"}, tenant : {"", "acme"}]

\* the declarations up() is run with: ~x plain or ignored next to y, and ~x without columns
DeclarationsUp ==
    {<<File(TRUE, <<Entry("~x", TRUE, ColsX), Entry("y", TRUE, ColsY)>>)>>,
     <<File(TRUE, <<Entry("~x", TRUE, ColsIgnored), Entry("y", TRUE, ColsY)>>)>>,
     <<File(TRUE, <<Entry("~x", TRUE, ColsNone)>>)>>}

Databases ==
    {<<a, b>> : a \in {NoDatabase, EmptyDatabase, Populated(Targets[1])},
                b \in {NoDatabase, Populated(Targets[2])}}

(***************************************************************************)
(* Database: the pool registry                                             *)
(***************************************************************************)
\* "`${node.USER}@${host}:${port}/${db}`", host being the first host of the node
poolKey(node) == node.USER \o "@" \o node.HOST[1] \o ":" \o node.PORT \o "/" \o node.NAME

\* "`${this.clusterName}:admin`"
adminKey(clusterName) == clusterName \o ":admin"

\* getPool / getAdminPool: the registered pool of the key, or a new Pool that is
\* registered under it
GetPool(key) ==
    IF \E e \in poolRegistry : e.key = key
    THEN UNCHANGED <<poolRegistry, pools>>
    ELSE /\ pools' = Append(pools, [key |-> key, ended |-> 0])
         /\ poolRegistry' = poolRegistry \cup {[key |-> key, pool |-> Len(pools) + 1]}

\* variant: the registry is emptied, no pool is ended
closeAll_DeleteOnly(heap, registry) == heap

\* closeAll: "await pool.end(); poolRegistry.delete(key)" for every entry
closeAll(heap, registry) ==
    [i \in 1..Len(heap) |->
        IF \E e \in registry : e.pool = i THEN [heap[i] EXCEPT !.ended = @ + 1] ELSE heap[i]]

\* what generateDiff read last: the tables listed, whether the listing query succeeded,
\* and the tables whose catalog reads threw
NoReads == [tablesReal |-> <<>>, listed |-> TRUE, unreadable |-> {}]

Init ==
    /\ decl \in DeclarationsUp
    /\ live \in Databases
    /\ opts \in Options
    /\ pc = "target"
    /\ ti = 1
    /\ queries = <<>>
    /\ qi = 0
    /\ inflight = Null
    /\ result = NoResult
    /\ wire = <<>>
    /\ run = NoReads
    /\ prev = "none"
    /\ budget = 0
    /\ poolRegistry = {}
    /\ pools = <<>>
    /\ conn = Null
    /\ seed = NoSeed
    /\ applied = NotApplied


(***************************************************************************)
(* builder.ts: up()                                                        *)
(*                                                                         *)
(* One call of up(options).  pc is the position in the function; an entry  *)
(* of wire is a schema-changing statement handed to an executor:           *)
(* [target, port, sql, outcome] with port "admin" or "pg" and outcome      *)
(* "pending" while the call is awaited, then "ok" or the error message.    *)
(***************************************************************************)
\* getTargets(filter): the entries of postgres.DB the filter lets through
getTargets(filter) ==
    SelectSeq(Targets, LAMBDA t : /\ ~ (filter.tenant # "" /\ ~ t.TENANT_KEYS)
                                  /\ ~ (/\ filter.name # ""
                                        /\ filter.name # t.NAME
                                        /\ ~ t.TENANT_KEYS))

targets == getTargets(opts)

\* variant: the dry option is not read
DryRun_Ignored(options) == FALSE

\* "const dryRun = options.dry ?? false"
DryRun(options) == options.dry

\* "if (!mute && !options.yes)": the user is asked
Asks(options) == ~ options.mute /\ ~ options.yes

\* variant: the call is not awaited
Settled_NoAwait(call) == TRUE

\* "await target.pg.query(q.sql)": the loop goes on when the call has settled
Settled(call) == call = Null

\* the statement the loop hands out next, k of them being done
NextQuery(list, k) == list[k + 1]

\* variant: the loop is left at the first failure
AfterQuery_StopOnError(k, list, outcome) == IF outcome = "ok" THEN k + 1 ELSE Len(list)

\* the number of statements done once statement k + 1 has settled, whatever its outcome
AfterQuery(k, list, outcome) == k + 1

\* "result.failed.push({ sql: q.sql, error: errMsg })"
PushFailed_AlsoExecuted(res, sql, errMsg) ==
    [res EXCEPT !.failed = Append(@, [sql |-> sql, error |-> errMsg]), !.executed = @ + 1]

PushFailed(res, sql, errMsg) ==
    [res EXCEPT !.failed = Append(@, [sql |-> sql, error |-> errMsg])]

\* "result.executed++"
CountExecuted(res) == [res EXCEPT !.executed = @ + 1]

\* the message of the error a failed call throws
ErrorMessage(accepted) == IF accepted THEN "connection terminated" ELSE "rejected by the server"

\* head of "for (const target of targets)"
NextTarget ==
    /\ pc = "target"
    /\ pc' = IF ti > Len(targets) THEN "close"
             ELSE IF opts.create THEN "checkdb" ELSE "diff"
    /\ UNCHANGED <<decl, live, opts, ti, queries, qi, inflight, result, wire, run, prev, budget>>
    /\ UNCHANGED <<poolRegistry, pools, conn, seed, applied>>

\* "continue": on to the next target, result.total untouched
Continue ==
    /\ pc' = "target"
    /\ ti' = ti + 1
    /\ queries' = <<>>
    /\ qi' = 0

\* checkDatabaseExistence: a catalog read on the admin pool; null when it throws
CheckDatabase ==
    /\ pc = "checkdb"
    /\ \E readOk \in BOOLEAN :
          LET createDbQuery == IF readOk /\ ~ live[ti].exists
                               THEN Some(generateCreateDatabase(targets[ti].NAME))
                               ELSE Null
          IN  pc' = IF createDbQuery = Null \/ DryRun(opts) THEN "diff"
                    ELSE IF Asks(opts) THEN "confirmCreate"
                    ELSE "createdb"
    /\ UNCHANGED <<decl, live, opts, ti, queries, qi, inflight, result, wire, run, prev, budget>>
    /\ GetPool(adminKey(targets[ti].id))
    /\ UNCHANGED <<conn, seed, applied>>

\* "Database ... does not exist. Create it?"
ConfirmCreate ==
    /\ pc = "confirmCreate"
    /\ \E ok \in BOOLEAN :
          IF ok
          THEN pc' = "createdb" /\ UNCHANGED <<ti, queries, qi>>
          ELSE Continue
    /\ UNCHANGED <<decl, live, opts, inflight, result, wire, run, prev, budget>>
    /\ UNCHANGED <<poolRegistry, pools, conn, seed, applied>>

\* "await adminPool.query(createDbQuery.sql)": not caught, a failure leaves up()
CreateDatabase ==
    /\ pc = "createdb"
    /\ LET sql == generateCreateDatabase(targets[ti].NAME).sql
           Outcome(accepted) ==
               \E outcome \in {"ok", ErrorMessage(accepted)} :
                  /\ outcome = "ok" => accepted
                  /\ live' = IF outcome = "ok" THEN [live EXCEPT ![ti] = PgApply(@, sql)]
                             ELSE live
                  /\ wire' = Append(wire, [target |-> targets[ti].id, port |-> "admin",
                                           sql |-> sql, outcome |-> outcome])
                  /\ pc' = IF outcome = "ok" THEN "diff" ELSE "throw"
       IN  Outcome(PgAccepts(live[ti], sql))
    /\ UNCHANGED <<decl, opts, ti, queries, qi, inflight, result, run, prev, budget>>
    /\ GetPool(adminKey(targets[ti].id))
    /\ UNCHANGED <<conn, seed, applied>>

\* "const queries = await engine.generateDiff(target, options.dropOrphans)" and the
\* branch on it; the catalog reads may throw
GenerateDiff ==
    /\ pc = "diff"
    /\ \E listOk \in BOOLEAN, unreadable \in SUBSET {"y"} :
          /\ queries' = generateDiff(targets[ti], live[ti], decl, opts.dropOrphans,
                                     listOk, unreadable)
          /\ run' = [tablesReal |-> TablesReal(live[ti], listOk),
                     listed |-> listOk /\ live[ti].exists,
                     unreadable |-> unreadable]
    /\ qi' = 0
    /\ pc' = IF queries' = <<>> \/ DryRun(opts) THEN "total"
             ELSE IF Asks(opts) THEN "confirmApply"
             ELSE "apply"
    /\ UNCHANGED <<decl, live, opts, ti, inflight, result, wire, prev, budget>>
    /\ GetPool(poolKey(targets[ti]))
    /\ UNCHANGED <<conn, seed, applied>>

\* "Apply changes?"
ConfirmApply ==
    /\ pc = "confirmApply"
    /\ \E ok \in BOOLEAN :
          IF ok
          THEN pc' = "apply" /\ UNCHANGED <<ti, queries, qi>>
          ELSE Continue
    /\ UNCHANGED <<decl, live, opts, inflight, result, wire, run, prev, budget>>
    /\ UNCHANGED <<poolRegistry, pools, conn, seed, applied>>

\* "for (const q of queries) { try { await target.pg.query(q.sql)": the call is made
Dispatch ==
    /\ pc = "apply"
    /\ qi < Len(queries)
    /\ Settled(inflight)
    /\ inflight' = Some(NextQuery(queries, qi))
    /\ wire' = Append(wire, [target |-> targets[ti].id, port |-> "pg",
                             sql |-> NextQuery(queries, qi).sql, outcome |-> "pending"])
    /\ UNCHANGED <<decl, live, opts, pc, ti, queries, qi, result, run, prev, budget>>
    /\ GetPool(poolKey(targets[ti]))
    /\ UNCHANGED <<conn, seed, applied>>

\* the call settles: "result.executed++", or the catch block
Complete ==
    /\ pc = "apply"
    /\ inflight # Null
    /\ LET sql == inflight[1].sql
           Outcome(accepted) ==
               \E outcome \in {"ok", ErrorMessage(accepted)} :
                  /\ outcome = "ok" => accepted
                  /\ outcome # "ok" => (~ accepted \/ budget < MaxFaults)
                  /\ budget' = IF outcome = "ok" \/ ~ accepted THEN budget ELSE budget + 1
                  /\ live' = IF outcome = "ok" THEN [live EXCEPT ![ti] = PgApply(@, sql)]
                             ELSE live
                  /\ result' = IF outcome = "ok" THEN CountExecuted(result)
                               ELSE PushFailed(result, sql, outcome)
                  /\ wire' = [wire EXCEPT ![Len(wire)].outcome = outcome]
                  /\ qi' = AfterQuery(qi, queries, outcome)
       IN  Outcome(PgAccepts(live[ti], sql))
    /\ inflight' = Null
    /\ UNCHANGED <<decl, opts, pc, ti, queries, run, prev>>
    /\ UNCHANGED <<poolRegistry, pools, conn, seed, applied>>

\* "result.total += queries.length", end of the iteration
EndTarget ==
    /\ \/ pc = "total"
       \/ pc = "apply" /\ qi = Len(queries) /\ Settled(inflight)
    /\ result' = [result EXCEPT !.total = @ + Len(queries)]
    /\ Continue
    /\ UNCHANGED <<decl, live, opts, inflight, wire, run, prev, budget>>
    /\ UNCHANGED <<poolRegistry, pools, conn, seed, applied>>

\* "finally { await engine.close() }", then the result is returned or the error rethrown
Close ==
    /\ pc \in {"close", "throw"}
    /\ pc' = IF pc = "close" THEN "done" ELSE "failed"
    /\ UNCHANGED <<decl, live, opts, ti, queries, qi, inflight, result, wire, run, prev, budget>>
    /\ pools' = closeAll(pools, poolRegistry)
    /\ poolRegistry' = {}
    /\ UNCHANGED <<conn, seed, applied>>

Next ==
    \/ NextTarget
    \/ CheckDatabase
    \/ ConfirmCreate
    \/ CreateDatabase
    \/ GenerateDiff
    \/ ConfirmApply
    \/ Dispatch
    \/ Complete
    \/ EndTarget
    \/ Close

Spec == Init /\ [][Next]_vars

(***************************************************************************)
(* generateDiff on its own: every declaration, either target, the          *)
(* databases above, with and without dropOrphans.                          *)
(***************************************************************************)
InitGen ==
    /\ decl \in Declarations
    /\ live \in Databases
    /\ opts \in {[NoOptions EXCEPT !.dropOrphans = d] : d \in BOOLEAN}
    /\ pc = "diff"
    /\ ti \in 1..Len(Targets)
    /\ queries = <<>>
    /\ qi = 0
    /\ inflight = Null
    /\ result = NoResult
    /\ wire = <<>>
    /\ run = NoReads
    /\ prev = "none"
    /\ budget = 0
    /\ poolRegistry = {}
    /\ pools = <<>>
    /\ conn = Null
    /\ seed = NoSeed
    /\ applied = NotApplied

NextGen == GenerateDiff

SpecGen == InitGen /\ [][NextGen]_vars

(***************************************************************************)
(* seedRunner.ts: runSeed                                                  *)
(*                                                                         *)
(* A seed row is a sequence of [k, v], the keys of the YAML mapping in     *)
(* order; a value is [t, v] with t "number", "string" or "null" and v its  *)
(* text.  The seeded table has the text columns SeedColumns; a row of it   *)
(* is a function from the columns to a nullable string.  The table is      *)
(* [pk, indexes, rows]: the primary-key columns, the indexes of pg_indexes *)
(* in catalog order as [name, unique, cols], and the rows in heap order.   *)
(***************************************************************************)
SeedColumns == {"a", "b", "c"}

Num(s) == [t |-> "number", v |-> s]
Str(s) == [t |-> "string", v |-> s]
NullValue == [t |-> "null", v |-> ""]

\* row[k], undefined being sent and compared as null
Get(row, k) ==
    IF \E i \in 1..Len(row) : row[i].k = k
    THEN row[CHOOSE i \in 1..Len(row) : row[i].k = k].v
    ELSE NullValue

\* Object.keys(row)
Keys(row) == [i \in 1..Len(row) |-> row[i].k]

\* the text without its leading zeros, and without its trailing zeros
RECURSIVE StripLeft(_)
StripLeft(s) == IF s # "" /\ Head(s) = "0" THEN StripLeft(Tail(s)) ELSE s

RECURSIVE StripRight(_)
StripRight(s) ==
    IF s # "" /\ Ch(s, Len(s)) = "0" THEN StripRight(SubSeq(s, 1, Len(s) - 1)) ELSE s

\* "!isNaN(Number(trimmed))" for decimal literals: an optional sign, digits, and an
\* optional point with digits, one digit at least
IsDecimal(s) ==
    LET Unsigned(u) ==
            /\ Len(split(u, ".")) \in {1, 2}
            /\ \A n \in 1..Len(split(u, ".")) : AllIn(split(u, ".")[n], DigitChars)
            /\ \E i \in 1..Len(u) : Ch(u, i) \in DigitChars
    IN  s # "" /\ Unsigned(IF Head(s) \in {"-", "+"} THEN Tail(s) ELSE s)

\* Number(trimmed) of a decimal literal, as the text String(number) gives: 180.00 is
\* "180", 2.50 is "2.5", and -0 is 0 under ===
NumberOf(s) ==
    LET Text(sign, whole, frac) ==
            IF frac = "" THEN (IF whole = "" THEN "0" ELSE sign \o whole)
            ELSE sign \o (IF whole = "" THEN "0" ELSE whole) \o "." \o frac
        Parts(sign, p) ==
            Text(sign, StripLeft(p[1]), IF Len(p) = 2 THEN StripRight(p[2]) ELSE "")
    IN  IF Head(s) = "-" THEN Parts("-", split(Tail(s), "."))
        ELSE IF Head(s) = "+" THEN Parts("", split(Tail(s), "."))
        ELSE Parts("", split(s, "."))

\* variant: a string is compared as it is
normalizeValue_AsIs(v) == v

\* normalizeValue on null, numbers and strings that are neither JSON text nor dates: a
\* numeric string is the number it reads as
normalizeValue(v) ==
    IF v.t = "string" /\ IsDecimal(trim(v.v)) THEN Num(NumberOf(trim(v.v))) ELSE v

\* valuesMatch(a, b): "na === nb"
valuesMatch(a, b) == normalizeValue(a) = normalizeValue(b)

\* the parameter the driver sends for a value, and the value it returns for a column
Param(v) == IF v.t = "null" THEN Null ELSE Some(v.v)
Returned(x) == IF x = Null THEN NullValue ELSE Str(x[1])

\* pg_get_indexdef: the indexdef column of pg_indexes
IndexDef(table, ix) ==
    LET RECURSIVE List(_)
        List(cols) == IF Len(cols) = 1 THEN cols[1] ELSE cols[1] \o ", " \o List(Tail(cols))
    IN  "CREATE " \o (IF ix.unique THEN "UNIQUE " ELSE "") \o "INDEX " \o ix.name
        \o " ON public." \o table \o " USING btree (" \o List(ix.cols) \o ")"

\* def.match(/\(([^)]+)\)/): the first group, null without a match
RECURSIVE GroupMatch(_)
GroupMatch(def) ==
    LET \* n: the place of the first ")" after the "(" at the head, 0 without one
        From(rest, n) ==
            IF n = 0 THEN Null
            ELSE IF n = 1 THEN GroupMatch(rest)
            ELSE Some(SubSeq(rest, 1, n - 1))
        Closing(rest) ==
            IF includes(rest, ")")
            THEN CHOOSE n \in 1..Len(rest) :
                     Ch(rest, n) = ")" /\ \A j \in 1..(n - 1) : Ch(rest, j) # ")"
            ELSE 0
    IN  IF def = "" THEN Null
        ELSE IF Head(def) = "(" THEN From(Tail(def), Closing(Tail(def)))
        ELSE GroupMatch(Tail(def))

\* "match[1].split(',').map(c => c.trim().replace(/"/g, ''))"
IndexColumns(group) ==
    LET Cols(parts) == [i \in 1..Len(parts) |-> replaceAll(trim(parts[i]), "\"", "", FALSE)]
    IN  Cols(split(group, ","))

\* "for (const row of idxRows)": the columns of the first UNIQUE definition whose columns
\* are all seed keys, else what matchColumns held
RECURSIVE UniqueMatch(_, _, _)
UniqueMatch(idxRows, seedKeys, matchColumns) ==
    LET Try(cols) ==
            IF \A i \in 1..Len(cols) : SeqIncludes(seedKeys, cols[i]) THEN cols
            ELSE UniqueMatch(Tail(idxRows), seedKeys, matchColumns)
        Parse(m) ==
            IF m = Null THEN UniqueMatch(Tail(idxRows), seedKeys, matchColumns)
            ELSE Try(IndexColumns(m[1]))
    IN  IF idxRows = <<>> THEN matchColumns
        ELSE IF ~ includes(Head(idxRows), "UNIQUE")
        THEN UniqueMatch(Tail(idxRows), seedKeys, matchColumns)
        ELSE Parse(GroupMatch(Head(idxRows)))

\* "Determine match columns: PK if in seed data, else UNIQUE columns"; idxRows is null
\* when the pg_indexes query throws
MatchColumns(pkCols, seedKeys, idxRows) ==
    LET Pick(matchColumns) ==
            IF Len(matchColumns) < Len(pkCols) /\ idxRows # Null
            THEN UniqueMatch(idxRows[1], seedKeys, matchColumns)
            ELSE matchColumns
    IN  Pick(SelectSeq(pkCols, LAMBDA k : SeqIncludes(seedKeys, k)))

(***************************************************************************)
(* The seeded table as PostgreSQL keeps it.                                *)
(***************************************************************************)
\* the row an INSERT with these keys and parameters builds
RowOf(row) == [c \in SeedColumns |-> Param(Get(row, c))]

\* SELECT ... WHERE "k1" = $1 AND ...: a comparison with NULL selects nothing
SelectWhere(rows, cols, row) ==
    SelectSeq(rows, LAMBDA r : \A i \in 1..Len(cols) :
                                  r[cols[i]] # Null /\ r[cols[i]] = Param(Get(row, cols[i])))

\* the column lists the table keeps unique: the primary key and the unique indexes
\* (the primary-key index is among the indexes)
UniqueLists(tbl) ==
    {tbl.indexes[i].cols : i \in {k \in 1..Len(tbl.indexes) : tbl.indexes[k].unique}}

\* the column sets ON CONFLICT (...) can name: those of the unique indexes on plain columns
Arbiters(tbl) ==
    {{tbl.indexes[i].cols[n] : n \in 1..Len(tbl.indexes[i].cols)} :
        i \in {k \in 1..Len(tbl.indexes) : tbl.indexes[k].unique /\ ~ tbl.indexes[k].expr}}

\* rows r and e collide on the unique column list u
Collide(r, e, u) == \A n \in 1..Len(u) : r[u[n]] # Null /\ r[u[n]] = e[u[n]]

\* row r can stand in the table next to the rows others
Fits(tbl, r, others) ==
    /\ \A n \in 1..Len(tbl.pk) : r[tbl.pk[n]] # Null
    /\ \A u \in UniqueLists(tbl) : \A m \in 1..Len(others) : ~ Collide(r, others[m], u)

Without(rows, m) == SubSeq(rows, 1, m - 1) \o SubSeq(rows, m + 1, Len(rows))

\* INSERT ... ON CONFLICT (matchColumns) DO UPDATE SET ... / DO NOTHING:
\* [ok, rows, is] with is "insert", "update" or "nothing"
PgUpsert(tbl, row, matchColumns) ==
    LET updateCols == SelectSeq(Keys(row), LAMBDA k : ~ SeqIncludes(matchColumns, k))
        Failed == [ok |-> FALSE, rows |-> tbl.rows, is |-> "nothing"]
        Update(m, changed) ==
            IF updateCols = <<>> THEN [ok |-> TRUE, rows |-> tbl.rows, is |-> "nothing"]
            ELSE IF Fits(tbl, changed, Without(tbl.rows, m))
            THEN [ok |-> TRUE, rows |-> [tbl.rows EXCEPT ![m] = changed], is |-> "update"]
            ELSE Failed
        Insert(new, hits) ==
            IF \E n \in 1..Len(tbl.pk) : new[tbl.pk[n]] = Null THEN Failed
            ELSE IF hits # {}
            THEN Update(CHOOSE m \in hits : TRUE,
                        [c \in SeedColumns |->
                            IF SeqIncludes(updateCols, c) THEN new[c]
                            ELSE tbl.rows[CHOOSE m \in hits : TRUE][c]])
            ELSE IF Fits(tbl, new, tbl.rows)
            THEN [ok |-> TRUE, rows |-> Append(tbl.rows, new), is |-> "insert"]
            ELSE Failed
        Hits(new) == {m \in 1..Len(tbl.rows) : Collide(new, tbl.rows[m], matchColumns)}
    IN  IF {matchColumns[n] : n \in 1..Len(matchColumns)} \notin Arbiters(tbl) THEN Failed
        ELSE Insert(RowOf(row), Hits(RowOf(row)))

\* plain INSERT
PgInsert(tbl, row) ==
    IF Fits(tbl, RowOf(row), tbl.rows)
    THEN [ok |-> TRUE, rows |-> Append(tbl.rows, RowOf(row)), is |-> "insert"]
    ELSE [ok |-> FALSE, rows |-> tbl.rows, is |-> "nothing"]

(***************************************************************************)
(* One call of runSeed(options).  seed is [files, data, table, seedTables, *)
(* i, j, classes, counts, totals]: files tells how the seed files were     *)
(* found, data is the parsed file ([name, rows] per table), seedTables the *)
(* result of pass 1, i and j the table and the row at hand, classes what   *)
(* the analysis made of the rows of table i, counts and totals the         *)
(* counters of pass 2.  An entry of wire is a write handed to the          *)
(* executor.                                                               *)
(***************************************************************************)
Row(ks, vs) == [i \in 1..Len(ks) |-> [k |-> ks[i], v |-> vs[i]]]

SeedRows ==
    {<<>>,
     <<Row(<<"a", "b">>, <<Num("1"), Str("x")>>)>>,
     <<Row(<<"b", "c">>, <<Str("x"), Str("y")>>)>>,
     <<Row(<<"a", "c">>, <<Num("1"), Str("y")>>)>>,
     <<Row(<<"a", "b">>, <<Num("1"), Str("x")>>), Row(<<"a", "b">>, <<Num("2"), Str("7")>>)>>,
     <<Row(<<"b">>, <<NullValue>>)>>,
     <<Row(<<"a", "c">>, <<Num("1"), Num("180")>>), Row(<<"a", "c">>, <<Num("2"), Str("y")>>)>>}

SeedData == {<<>>} \cup {<<[name |-> "t", rows |-> rows]>> : rows \in SeedRows}

Index(name, unique, cols, expr) ==
    [name |-> name, unique |-> unique, cols |-> cols, expr |-> expr]

\* the columns of an index as pg_indexes prints them
Printed(ix) == [ix EXCEPT !.cols = [n \in 1..Len(@) |-> IF ix.expr THEN "lower(" \o @[n] \o ")"
                                                          ELSE @[n]]]

PrimaryKeys == {<<>>, <<"a">>, <<"a", "b">>}

MoreIndexes ==
    {<<>>,
     <<Index("app_t_b_key", TRUE, <<"b">>, FALSE)>>,
     <<Index("app_t_c_idx", FALSE, <<"c">>, FALSE),
       Index("app_t_bc", TRUE, <<"b", "c">>, FALSE)>>,
     <<Index("app_t_lb", TRUE, <<"b">>, TRUE)>>}

StoredRows ==
    {<<>>,
     <<[a |-> <<"1">>, b |-> <<"x">>, c |-> <<"y">>]>>,
     <<[a |-> <<"1">>, b |-> <<"x">>, c |-> <<"z">>]>>,
     <<[a |-> <<"1">>, b |-> <<"x">>, c |-> <<"180.00">>], [a |-> <<"2">>, b |-> <<"7">>, c |-> <<"y">>]>>}

SeededTables ==
    {[pk |-> pk,
      indexes |-> (IF pk = <<>> THEN <<>> ELSE <<Index("app_t_pkey", TRUE, pk, FALSE)>>) \o more,
      rows |-> rows] :
        pk \in PrimaryKeys, more \in MoreIndexes, rows \in StoredRows}

NoCounts == [inserted |-> 0, updated |-> 0, errors |-> 0]
NoTotals == [inserted |-> 0, updated |-> 0, skipped |-> 0, upToDate |-> 0, errors |-> 0]

SeedRuns ==
    [files : {"nodir", "nofile", "unreadable", "empty", "found"},
     data : SeedData,
     table : SeededTables,
     seedTables : {<<>>},
     i : {1}, j : {1},
     classes : {<<>>},
     counts : {NoCounts},
     totals : {NoTotals}]

SeedOptions == [yes : BOOLEAN, table : {"", "t", "zz"}]

InitSeed ==
    /\ decl = <<>>
    /\ live = <<>>
    /\ opts \in SeedOptions
    /\ pc = "seed"
    /\ ti = 1
    /\ queries = <<>>
    /\ qi = 0
    /\ inflight = Null
    /\ result = NoResult
    /\ wire = <<>>
    /\ run = NoReads
    /\ prev = "none"
    /\ budget = 0
    /\ poolRegistry = {}
    /\ pools = <<>>
    /\ conn = Null
    /\ seed \in SeedRuns
    /\ applied = NotApplied

\* the seed directory and the files to process: every early return closes the engine
SeedStart ==
    /\ pc = "seed"
    /\ IF seed.files = "found"
       THEN pc' = "pass1" /\ UNCHANGED <<poolRegistry, pools>>
       ELSE /\ pc' = "done"
            /\ pools' = closeAll(pools, poolRegistry)
            /\ poolRegistry' = {}
    /\ UNCHANGED <<decl, live, opts, ti, queries, qi, inflight, result, wire, run, prev, budget,
                   conn, seed, applied>>

\* "config.PREF && !tableName.startsWith(config.PREF) ? config.PREF + tableName : tableName"
FinalTableName(tableName, config) ==
    IF config.PREF # "" /\ ~ startsWith(tableName, config.PREF)
    THEN config.PREF \o tableName
    ELSE tableName

\* Object.keys of the first row, [] without one
SeedKeys(rows) == IF rows = <<>> THEN <<>> ELSE Keys(rows[1])

\* pass 1 for one table of the file: the primary-key query, the match columns, and
\* seedTables.push; fault tells which query throws
SeedDiscover ==
    /\ pc = "pass1"
    /\ Len(seed.seedTables) < Len(seed.data)
    /\ \E fault \in {"none", "pk", "idx"} :
          LET entry == seed.data[Len(seed.seedTables) + 1]
              finalName == FinalTableName(entry.name, Targets[1])
              Push(pkCols, idxRows) ==
                  seed' = [seed EXCEPT !.seedTables =
                              Append(@, [finalName |-> finalName,
                                         rows |-> entry.rows,
                                         pkColumns |-> pkCols,
                                         matchColumns |->
                                             MatchColumns(pkCols, SeedKeys(entry.rows), idxRows)])]
          IN  /\ fault # "none" => budget < MaxFaults
              /\ budget' = IF fault = "none" THEN budget ELSE budget + 1
              /\ Push(IF fault = "pk" THEN <<>> ELSE seed.table.pk,
                      IF fault = "idx" THEN Null
                      ELSE Some([n \in 1..Len(seed.table.indexes) |->
                                    IndexDef(finalName, Printed(seed.table.indexes[n]))]))
    /\ GetPool(poolKey(Targets[1]))
    /\ UNCHANGED <<decl, live, opts, pc, ti, queries, qi, inflight, result, wire, run, prev, conn, applied>>

\* "Filter by --table if specified"
Requested(table) ==
    LET parts == split(table, ",")
    IN  [n \in 1..Len(parts) |-> toLowerCase(trim(parts[n]))]

FilterTables(seedTables, table) ==
    IF table = "" THEN seedTables
    ELSE SelectSeq(seedTables,
                   LAMBDA st : \E n \in 1..Len(Requested(table)) :
                                  \/ toLowerCase(st.finalName) = Requested(table)[n]
                                  \/ endsWith(toLowerCase(st.finalName), Requested(table)[n]))

\* end of pass 1: the --table filter, and the return when no table is left
SeedFilter ==
    /\ pc = "pass1"
    /\ Len(seed.seedTables) = Len(seed.data)
    /\ seed' = [seed EXCEPT !.seedTables = FilterTables(@, opts.table)]
    /\ pc' = IF seed'.seedTables = <<>> THEN "close" ELSE "analyze"
    /\ UNCHANGED <<decl, live, opts, ti, queries, qi, inflight, result, wire, run, prev, budget,
                   poolRegistry, pools, conn, applied>>

\* "Analyze", one row: the SELECT by the match columns and the row's class
SeedAnalyze ==
    /\ pc = "analyze"
    /\ seed.seedTables[seed.i].matchColumns # <<>>
    /\ seed.j <= Len(seed.seedTables[seed.i].rows)
    /\ \E thrown \in BOOLEAN :
          LET st == seed.seedTables[seed.i]
              row == st.rows[seed.j]
              Class(existing) ==
                  IF thrown \/ existing = <<>> THEN "insert"
                  ELSE IF \E n \in 1..Len(row) :
                             /\ ~ SeqIncludes(st.matchColumns, row[n].k)
                             /\ ~ valuesMatch(row[n].v, Returned(existing[1][row[n].k]))
                  THEN "update"
                  ELSE "unchanged"
          IN  /\ thrown => budget < MaxFaults
              /\ budget' = IF thrown THEN budget + 1 ELSE budget
              /\ seed' = [seed EXCEPT
                             !.classes = Append(@, Class(SelectWhere(seed.table.rows,
                                                                     st.matchColumns, row))),
                             !.j = @ + 1]
    /\ GetPool(poolKey(Targets[1]))
    /\ UNCHANGED <<decl, live, opts, pc, ti, queries, qi, inflight, result, wire, run, prev, conn, applied>>

\* on to the next table, or to the summary
NextTable(s) ==
    /\ seed' = [s EXCEPT !.i = @ + 1, !.j = 1, !.classes = <<>>, !.counts = NoCounts]
    /\ pc' = IF s.i + 1 > Len(s.seedTables) THEN "close" ELSE "analyze"

Count(classes, c) == Cardinality({n \in 1..Len(classes) : classes[n] = c})

\* "Preview" and "Confirm": an up-to-date table is passed over, otherwise the user is
\* asked unless options.yes; the prompt throws when it is aborted
SeedConfirm ==
    /\ pc = "analyze"
    /\ \/ seed.seedTables[seed.i].matchColumns = <<>>
       \/ seed.j > Len(seed.seedTables[seed.i].rows)
    /\ LET st == seed.seedTables[seed.i]
           willInsert == IF st.matchColumns = <<>> THEN Len(st.rows)
                         ELSE Count(seed.classes, "insert")
           willUpdate == Count(seed.classes, "update")
       IN  IF willInsert = 0 /\ willUpdate = 0
           THEN NextTable([seed EXCEPT !.totals.upToDate = @ + 1])
           ELSE \E answer \in {"yes", "no", "abort"} :
                   /\ opts.yes => answer = "yes"
                   /\ IF answer = "yes"
                      THEN pc' = "applyRows" /\ seed' = [seed EXCEPT !.j = 1, !.counts = NoCounts]
                      ELSE IF answer = "no"
                      THEN NextTable([seed EXCEPT !.totals.skipped = @ + Len(st.rows)])
                      ELSE pc' = "throw" /\ seed' = seed
    /\ UNCHANGED <<decl, live, opts, ti, queries, qi, inflight, result, wire, run, prev, budget,
                   poolRegistry, pools, conn, applied>>

\* "Apply", one row: the upsert by the match columns, or the existence check and the
\* plain INSERT of an insert-only table
SeedApply ==
    /\ pc = "applyRows"
    /\ seed.j <= Len(seed.seedTables[seed.i].rows)
    /\ \E thrown \in BOOLEAN :
          LET st == seed.seedTables[seed.i]
              row == st.rows[seed.j]
              Booked(written, r) ==
                  /\ wire' = wire \o written
                  /\ seed' = [seed EXCEPT
                                 !.j = @ + 1,
                                 !.table.rows = r.rows,
                                 !.counts.errors = IF r.ok THEN @ ELSE @ + 1,
                                 !.totals.errors = IF r.ok THEN @ ELSE @ + 1,
                                 !.counts.updated = IF r.ok /\ r.is = "update" THEN @ + 1 ELSE @,
                                 !.counts.inserted =
                                     IF r.ok /\ r.is # "update" /\ written # <<>> THEN @ + 1 ELSE @]
              Write(op, r) ==
                  Booked(<<[target |-> Targets[1].id, port |-> "pg",
                            sql |-> [op |-> op, table |-> st.finalName, row |-> row],
                            outcome |-> IF r.ok THEN "ok" ELSE "error"]>>, r)
              Refused == [ok |-> FALSE, rows |-> seed.table.rows, is |-> "nothing"]
              Kept == [ok |-> TRUE, rows |-> seed.table.rows, is |-> "nothing"]
          IN  /\ thrown => (budget < MaxFaults /\ row # <<>>)
              /\ budget' = IF thrown THEN budget + 1 ELSE budget
              /\ IF row = <<>> THEN Booked(<<>>, Kept)
                 ELSE IF st.matchColumns # <<>>
                 THEN Write("UPSERT", IF thrown THEN Refused
                                      ELSE PgUpsert(seed.table, row, st.matchColumns))
                 ELSE IF thrown THEN Booked(<<>>, Refused)
                 ELSE IF SelectWhere(seed.table.rows, Keys(row), row) # <<>>
                 THEN Booked(<<>>, Kept)
                 ELSE Write("INSERT", PgInsert(seed.table, row))
          /\ IF row = <<>> THEN UNCHANGED <<poolRegistry, pools>>
             ELSE GetPool(poolKey(Targets[1]))
    /\ UNCHANGED <<decl, live, opts, pc, ti, queries, qi, inflight, result, run, prev, conn, applied>>

\* end of the apply loop of a table: "totalInserted += inserted; totalUpdated += updated"
SeedEndTable ==
    /\ pc = "applyRows"
    /\ seed.j > Len(seed.seedTables[seed.i].rows)
    /\ NextTable([seed EXCEPT !.totals.inserted = @ + seed.counts.inserted,
                              !.totals.updated = @ + seed.counts.updated])
    /\ UNCHANGED <<decl, live, opts, ti, queries, qi, inflight, result, wire, run, prev, budget,
                   poolRegistry, pools, conn, applied>>

NextSeed ==
    \/ SeedStart
    \/ SeedDiscover
    \/ SeedFilter
    \/ SeedAnalyze
    \/ SeedConfirm
    \/ SeedApply
    \/ SeedEndTable
    \/ Close

SpecSeed == InitSeed /\ [][NextSeed]_vars

(***************************************************************************)
(* runSeed called a second time: the command seed is given again with the  *)
(* same seed files and options against the database the first call left,   *)
(* once that call returned with no failed row and no declined table.       *)
(* applied is then [rows, sent]: the rows of the table and the number of   *)
(* writes handed to the executor when the second call began.               *)
(***************************************************************************)
SeedAgain ==
    /\ pc = "done"
    /\ applied = NotApplied
    /\ seed.files = "found"
    /\ seed.totals.errors = 0
    /\ seed.totals.skipped = 0
    /\ applied' = [rows |-> seed.table.rows, sent |-> Len(wire)]
    /\ seed' = [seed EXCEPT !.seedTables = <<>>, !.i = 1, !.j = 1, !.classes = <<>>,
                            !.counts = NoCounts, !.totals = NoTotals]
    /\ pc' = "seed"
    /\ budget' = 0
    /\ UNCHANGED <<decl, live, opts, ti, queries, qi, inflight, result, wire, run, prev,
                   poolRegistry, pools, conn>>

NextReseed == NextSeed \/ SeedAgain

SpecReseed == InitSeed /\ [][NextReseed]_vars

(***************************************************************************)
(* Database: query and transaction                                         *)
(*                                                                         *)
(* A cluster entry is [array, nodes]: one node, or the array of the        *)
(* config; a node's HOST is the list of its hosts.  The params of a call   *)
(* are null, [array |-> TRUE, values] or [array |-> FALSE, entries] with   *)
(* the entries [k, v] of the object in order.                              *)
(***************************************************************************)
Undefined == [t |-> "undefined", v |-> ""]

\* the properties every object inherits from Object.prototype
ObjectPrototype ==
    {"constructor", "toString", "toLocaleString", "valueOf", "hasOwnProperty",
     "isPrototypeOf", "propertyIsEnumerable", "__proto__"}

\* params[key]
Lookup(entries, key) ==
    IF \E i \in 1..Len(entries) : entries[i].k = key THEN Get(entries, key)
    ELSE IF key \in ObjectPrototype THEN [t |-> "function", v |-> key]
    ELSE Undefined

\* the longest prefix of s made of \w characters
RECURSIVE WordPrefix(_)
WordPrefix(s) ==
    IF s # "" /\ Head(s) \in WordChars THEN Head(s) \o WordPrefix(Tail(s)) ELSE ""

\* sql.replace(/(?<!:):([a-zA-Z_]\w*)/g, ...): before is the character before s, n the
\* value of paramIndex; the text up to the next colon is copied
RECURSIVE NamedToPositional(_, _, _, _)
NamedToPositional(s, before, n, entries) ==
    LET Emit(text, vals, rest) ==
            [sql |-> text \o rest.sql, values |-> vals \o rest.values]
        Replace(copied, key, rest) ==
            IF Lookup(entries, key) # Undefined
            THEN Emit(copied \o "$" \o String(n + 1), <<Lookup(entries, key)>>,
                      NamedToPositional(rest, Ch(key, Len(key)), n + 1, entries))
            ELSE Emit(copied \o ":" \o key, <<>>,
                      NamedToPositional(rest, Ch(key, Len(key)), n, entries))
        \* i is the place of the first colon of s
        Match(i, key) == Replace(SubSeq(s, 1, i - 1), key, SubSeq(s, i + Len(key) + 1, Len(s)))
        Colon(i) ==
            IF /\ (IF i = 1 THEN before ELSE Ch(s, i - 1)) # ":"
               /\ i < Len(s)
               /\ Ch(s, i + 1) \in LetterChars \cup {"_"}
            THEN Match(i, WordPrefix(SubSeq(s, i + 1, Len(s))))
            ELSE Emit(SubSeq(s, 1, i), <<>>,
                      NamedToPositional(SubSeq(s, i + 1, Len(s)), ":", n, entries))
    IN  IF ~ includes(s, ":") THEN [sql |-> s, values |-> <<>>]
        ELSE Colon(CHOOSE i \in 1..Len(s) : Ch(s, i) = ":" /\ \A j \in 1..(i - 1) : Ch(s, j) # ":")

\* the text and the values query() and queryWith() hand to pg
Positional(sql, params) ==
    IF params = Null THEN [sql |-> sql, values |-> <<>>]
    ELSE IF params[1].array THEN [sql |-> sql, values |-> params[1].values]
    ELSE IF Len(params[1].entries) > 0 THEN NamedToPositional(sql, "", 0, params[1].entries)
    ELSE [sql |-> sql, values |-> <<>>]

READ_COMMANDS == {"SELECT", "SHOW", "EXPLAIN", "WITH"}

\* "sql.trim().split(/\s+/)[0].toUpperCase()" is a read command
isReadOnly(sql) == toUpperCase(splitSpace(trim(sql))[1]) \in READ_COMMANDS

\* resolveCluster: the write node and the read nodes, one per host of a read node
resolveCluster(clusterConf) ==
    LET nodes == clusterConf.nodes
        writes == SelectSeq(nodes, LAMBDA nd : nd.TYPE = "write")
        RECURSIVE Hosts(_)
        Hosts(nds) ==
            IF nds = <<>> THEN <<>>
            ELSE (IF Head(nds).TYPE = "read"
                  THEN [h \in 1..Len(Head(nds).HOST) |->
                           [Head(nds) EXCEPT !.HOST = <<Head(nds).HOST[h]>>]]
                  ELSE <<>>) \o Hosts(Tail(nds))
        Result(writeNode, readNodes) ==
            [writeNode |-> writeNode,
             readNodes |-> IF readNodes = <<>> THEN <<writeNode>> ELSE readNodes]
    IN  IF ~ clusterConf.array THEN [writeNode |-> nodes[1], readNodes |-> nodes]
        ELSE Result(writes[Len(writes)], Hosts(nodes))

\* variant: the primary option is not read
Routes_PrimaryIgnored(sql, forcePrimary, cluster) ==
    IF isReadOnly(sql) THEN {poolKey(cluster.readNodes[i]) : i \in 1..Len(cluster.readNodes)}
    ELSE {poolKey(cluster.writeNode)}

\* the keys of the pools query() may take for a statement: getReadPool picks a read node
\* at random
Routes(sql, forcePrimary, cluster) ==
    IF isReadOnly(sql) /\ ~ forcePrimary
    THEN {poolKey(cluster.readNodes[i]) : i \in 1..Len(cluster.readNodes)}
    ELSE {poolKey(cluster.writeNode)}

\* a node of the config
Node(type, hosts) ==
    [TYPE |-> type, HOST |-> hosts, PORT |-> "5432", USER |-> "u", NAME |-> "app"]

Clusters ==
    {[array |-> FALSE, nodes |-> <<Node("", <<"h">>)>>],
     [array |-> TRUE, nodes |-> <<Node("write", <<"h">>)>>],
     [array |-> TRUE, nodes |-> <<Node("write", <<"h">>), Node("read", <<"r1", "r2">>)>>]}

DatabaseOptions == [cluster : Clusters, primary : BOOLEAN]

Named(entries) == Some([array |-> FALSE, entries |-> entries])

Call(sql, params) == [sql |-> sql, params |-> params]

\* the calls of query(): statements without params, with an array, and with named params
Calls ==
    {Call("SELECT 1", Null),
     Call("  select 1", Null),
     Call("\nSelect\t1", Null),
     Call("SHOW work_mem", Null),
     Call("EXPLAIN SELECT 1", Null),
     Call("WITH x AS (SELECT 1) SELECT 1", Null),
     Call("SELECT(1)", Null),
     Call("INSERT INTO t VALUES (1)", Null),
     Call("", Null),
     Call("SELECT $1, :a", Some([array |-> TRUE, values |-> <<Num("1")>>])),
     Call("SELECT :a", Named(<<>>)),
     Call("SELECT :a, :b", Named(Row(<<"a", "b">>, <<Num("1"), Str("x")>>))),
     Call("SELECT :b, :a, :b", Named(Row(<<"a", "b">>, <<Num("1"), Str("x")>>))),
     Call("SELECT :a::int, '{}'::jsonb", Named(Row(<<"a", "int">>, <<Str("7"), Num("2")>>))),
     Call("SELECT :a, :c, :n", Named(Row(<<"a", "c", "n">>, <<Num("1"), Undefined, NullValue>>))),
     Call("UPDATE t SET a = :a_1 WHERE b = :a", Named(Row(<<"a", "a_1">>, <<Num("1"), Num("2")>>))),
     Call("SELECT :a, :constructor", Named(Row(<<"a">>, <<Num("1")>>)))}

\* the statements the callback of transaction() issues through client.queryWith
FnCalls ==
    {Call("INSERT INTO o (u) VALUES (:userId)", Named(Row(<<"userId">>, <<Num("42")>>))),
     Call("SELECT 1", Null)}

MaxCalls == 2
MaxFnQueries == 2

InitDb ==
    /\ decl = <<>>
    /\ live = <<>>
    /\ opts \in DatabaseOptions
    /\ pc = "idle"
    /\ ti = 1
    /\ queries = <<>>
    /\ qi = 0
    /\ inflight = Null
    /\ result = NoResult
    /\ wire = <<>>
    /\ run = NoReads
    /\ prev = "none"
    /\ budget = 0
    /\ poolRegistry = {}
    /\ pools = <<>>
    /\ conn = Null
    /\ seed = NoSeed
    /\ applied = NotApplied

\* Database.query(sql, params): the pool by the statement's first word, the rewrite of
\* named params, and pool.query; wire holds the statement of the call as
\* [pool, call, sql, values, outcome]
DbQuery ==
    /\ pc = "idle"
    /\ budget < MaxCalls
    /\ \E call \in Calls, ok \in BOOLEAN :
          \E key \in Routes(call.sql, opts.primary, resolveCluster(opts.cluster)) :
             LET Send(p) ==
                     wire' = <<[pool |-> key, call |-> call,
                                sql |-> p.sql, values |-> p.values,
                                outcome |-> IF ok THEN "ok" ELSE "error"]>>
             IN  Send(Positional(call.sql, call.params)) /\ GetPool(key)
    /\ budget' = budget + 1
    /\ conn' = Null
    /\ UNCHANGED <<decl, live, opts, pc, ti, queries, qi, inflight, result, run, prev, seed, applied>>

\* a statement on the transaction's connection, and raw.release()
Statement(sql, values, ok) ==
    [op |-> "query", sql |-> sql, values |-> values, outcome |-> IF ok THEN "ok" ELSE "error"]
Release == [op |-> "release", sql |-> "", values |-> <<>>, outcome |-> "ok"]

\* "const raw = await pool.connect()": conn is [pool, log, fn, error, settled] with the
\* statements on the connection, how fn ended, the error caught and how the call settled
TxConnect ==
    /\ pc = "idle"
    /\ budget < MaxCalls
    /\ \E ok \in BOOLEAN :
          IF ok
          THEN /\ pc' = "begin"
               /\ conn' = Some([pool |-> poolKey(resolveCluster(opts.cluster).writeNode),
                                log |-> <<>>, fn |-> "pending", error |-> Null,
                                settled |-> Null])
          ELSE /\ pc' = "idle"
               /\ conn' = Null
    /\ GetPool(poolKey(resolveCluster(opts.cluster).writeNode))
    /\ budget' = budget + 1
    /\ wire' = <<>>
    /\ UNCHANGED <<decl, live, opts, ti, queries, qi, inflight, result, run, prev, seed, applied>>

\* "await raw.query('BEGIN')"
TxBegin ==
    /\ pc = "begin"
    /\ \E ok \in BOOLEAN :
          /\ conn' = <<[conn[1] EXCEPT !.log = Append(@, Statement("BEGIN", <<>>, ok)),
                                      !.error = IF ok THEN @ ELSE Some("BEGIN")]>>
          /\ pc' = IF ok THEN "fn" ELSE "rollback"
    /\ UNCHANGED <<decl, live, opts, ti, queries, qi, inflight, result, wire, run, prev, budget,
                   poolRegistry, pools, seed, applied>>

\* the queryWith calls fn has made
FnQueries(c) == Cardinality({i \in 1..Len(c.log) : c.log[i].sql \notin {"BEGIN"}})

\* fn calls client.queryWith(sql, params); when the query throws fn catches or lets go
TxQueryWith ==
    /\ pc = "fn"
    /\ FnQueries(conn[1]) < MaxFnQueries
    /\ \E call \in FnCalls, ok \in BOOLEAN, caught \in BOOLEAN :
          LET Send(p) ==
                  conn' = <<[conn[1] EXCEPT
                                !.log = Append(@, Statement(p.sql, p.values, ok)),
                                !.fn = IF ok \/ caught THEN @ ELSE "threw",
                                !.error = IF ok \/ caught THEN @ ELSE Some("queryWith")]>>
          IN  /\ ok => ~ caught
              /\ Send(Positional(call.sql, call.params))
              /\ pc' = IF ok \/ caught THEN "fn" ELSE "rollback"
    /\ UNCHANGED <<decl, live, opts, ti, queries, qi, inflight, result, wire, run, prev, budget,
                   poolRegistry, pools, seed, applied>>

\* fn returns, or throws an error of its own
TxFnSettle ==
    /\ pc = "fn"
    /\ \E resolved \in BOOLEAN :
          /\ conn' = <<[conn[1] EXCEPT !.fn = IF resolved THEN "resolved" ELSE "threw",
                                      !.error = IF resolved THEN @ ELSE Some("fn")]>>
          /\ pc' = IF resolved THEN "commit" ELSE "rollback"
    /\ UNCHANGED <<decl, live, opts, ti, queries, qi, inflight, result, wire, run, prev, budget,
                   poolRegistry, pools, seed, applied>>

\* "await raw.query('COMMIT'); return result"
TxCommit ==
    /\ pc = "commit"
    /\ \E ok \in BOOLEAN :
          /\ conn' = <<[conn[1] EXCEPT !.log = Append(@, Statement("COMMIT", <<>>, ok)),
                                      !.error = IF ok THEN @ ELSE Some("COMMIT"),
                                      !.settled = IF ok THEN Some("resolved") ELSE @]>>
          /\ pc' = IF ok THEN "release" ELSE "rollback"
    /\ UNCHANGED <<decl, live, opts, ti, queries, qi, inflight, result, wire, run, prev, budget,
                   poolRegistry, pools, seed, applied>>

\* variant: release only when the catch block completes
AfterCatch_NoFinally(ok) == IF ok THEN "release" ELSE "idle"

\* "finally { raw.release() }" follows the catch block however it ends
AfterCatch(ok) == "release"

\* "catch (err) { await raw.query('ROLLBACK'); throw err; }"
TxRollback ==
    /\ pc = "rollback"
    /\ \E ok \in BOOLEAN :
          /\ conn' = <<[conn[1] EXCEPT !.log = Append(@, Statement("ROLLBACK", <<>>, ok)),
                                      !.settled = IF ok THEN conn[1].error ELSE Some("ROLLBACK")]>>
          /\ pc' = AfterCatch(ok)
    /\ UNCHANGED <<decl, live, opts, ti, queries, qi, inflight, result, wire, run, prev, budget,
                   poolRegistry, pools, seed, applied>>

\* "raw.release()"
TxRelease ==
    /\ pc = "release"
    /\ conn' = <<[conn[1] EXCEPT !.log = Append(@, Release)]>>
    /\ pc' = "idle"
    /\ UNCHANGED <<decl, live, opts, ti, queries, qi, inflight, result, wire, run, prev, budget,
                   poolRegistry, pools, seed, applied>>

NextDb ==
    \/ DbQuery
    \/ TxConnect
    \/ TxBegin
    \/ TxQueryWith
    \/ TxFnSettle
    \/ TxCommit
    \/ TxRollback
    \/ TxRelease

SpecDb == InitDb /\ [][NextDb]_vars

(***************************************************************************)
(* normalizeDbDefaultForCompare applied to a column_default of the         *)
(* catalog, and again to its own result.  applied is [d, values].          *)
(***************************************************************************)
\* column_default texts as PostgreSQL prints them
DefaultExpressions ==
    {"0", "'0'", "'active'", "'it''s'", "'a::b'", "'(a)'", "'''x'''", "' x '", "true", "FALSE",
     "'TRUE'", "now()", "(1)", "((1))", "('a'::text || 'b')", "NULL", "'{}'", "",
     "encode(gen_random_bytes(8), 'hex'::text)", "nextval('t_id_seq'::regclass)"}

DefaultCasts == {"", "::text", "::character varying", "::text::bpchar", " :: timestamp without time zone"}

ReflectedDefaults == {e \o c : e \in DefaultExpressions, c \in DefaultCasts}

InitDefault ==
    /\ decl = <<>>
    /\ live = <<>>
    /\ opts = NoOptions
    /\ pc = "reflected"
    /\ ti = 1
    /\ queries = <<>>
    /\ qi = 0
    /\ inflight = Null
    /\ result = NoResult
    /\ wire = <<>>
    /\ run = NoReads
    /\ prev = "none"
    /\ budget = 0
    /\ poolRegistry = {}
    /\ pools = <<>>
    /\ conn = Null
    /\ seed = NoSeed
    /\ applied \in [d : ReflectedDefaults, values : {<<>>}]

\* normalizeDbDefaultForCompare(d), then normalizeDbDefaultForCompare of that
Canonicalize ==
    /\ pc \in {"reflected", "once"}
    /\ applied' = [applied EXCEPT !.values =
                       Append(@, normalizeDbDefaultForCompare(
                                     IF @ = <<>> THEN applied.d ELSE @[Len(@)]))]
    /\ pc' = IF pc = "reflected" THEN "once" ELSE "twice"
    /\ UNCHANGED <<decl, live, opts, ti, queries, qi, inflight, result, wire, run, prev, budget,
                   poolRegistry, pools, conn, seed>>

NextDefault == Canonicalize

SpecDefault == InitDefault /\ [][NextDefault]_vars

(***************************************************************************)
(* checkTypeMismatch and checkDefaultMismatch applied to one retained      *)
(* column: a declared field and the catalog row of the column of that      *)
(* name.  applied is [field, dbCol, fn, values]: the declared value, the   *)
(* reflected row, the function called and the statements it returned.      *)
(***************************************************************************)
DeclaredColumns ==
    {"str", "str default/active", "str default/''", "str default/null", "str/32", "varchar(32)",
     "char(3)", "text default/active", "text[]", "int", "int default/0", "integer default/7",
     "boolean default/true", "now", "date", "numeric", "numeric(10,2)", "numeric(8,2) default/0",
     "numeric(10)", "serial", "id", "uid"}

CatalogRow(dataType, length, precision, scale, dflt) ==
    [column_name |-> "a", data_type |-> dataType, is_nullable |-> "YES",
     character_maximum_length |-> length, column_default |-> dflt,
     numeric_precision |-> precision, numeric_scale |-> scale, pk |-> FALSE]

ReflectedColumns ==
    {CatalogRow("character varying", length, Null, Null, dflt) :
        length \in {Null, Some(32), Some(64)},
        dflt \in {Null, Some("'active'::character varying"), Some("''::character varying")}}
    \cup {CatalogRow("numeric", Null, ps[1], ps[2], dflt) :
        ps \in {<<Null, Null>>, <<Some(10), Some(2)>>, <<Some(8), Some(2)>>, <<Some(10), Some(0)>>},
        dflt \in {Null, Some("0"), Some("'0'::numeric")}}
    \cup {CatalogRow("integer", Null, Some(32), Some(0), dflt) :
        dflt \in {Null, Some("0"), Some("7"), Some("nextval('app_t_a_seq'::regclass)")}}
    \cup {CatalogRow("boolean", Null, Null, Null, dflt) : dflt \in {Null, Some("true"), Some("false")}}
    \cup {CatalogRow("timestamp without time zone", Null, Null, Null, dflt) :
        dflt \in {Null, Some("now()")}}
    \cup {CatalogRow("text", Null, Null, Null, dflt) : dflt \in {Null, Some("'active'::text")}}
    \cup {CatalogRow("character", length, Null, Null, Null) : length \in {Some(1), Some(3)}}
    \cup {CatalogRow("uuid", Null, Null, Null, Null), CatalogRow("ARRAY", Null, Null, Null, Null)}

\* fields[k] of the parsed declaration of column a
DeclaredField(v) == parseSchema(<<Field("a", v)>>, CustomFields).fields[1]

InitColumn ==
    /\ decl = <<>>
    /\ live = <<>>
    /\ opts = NoOptions
    /\ pc = "retained"
    /\ ti = 1
    /\ queries = <<>>
    /\ qi = 0
    /\ inflight = Null
    /\ result = NoResult
    /\ wire = <<>>
    /\ run = NoReads
    /\ prev = "none"
    /\ budget = 0
    /\ poolRegistry = {}
    /\ pools = <<>>
    /\ conn = Null
    /\ seed = NoSeed
    /\ applied \in [field : {DeclaredField(v) : v \in DeclaredColumns}, dbCol : ReflectedColumns,
                    fn : {""}, values : {<<>>}]

\* "queries.push(...checkTypeMismatch(table, k, v.type, dbCol))"
CheckType ==
    /\ pc = "retained"
    /\ applied' = [applied EXCEPT
                      !.fn = "checkTypeMismatch",
                      !.values = checkTypeMismatch("app_t", "a", applied.field.type, applied.dbCol)]
    /\ pc' = "returned"
    /\ UNCHANGED <<decl, live, opts, ti, queries, qi, inflight, result, wire, run, prev, budget,
                   poolRegistry, pools, conn, seed>>

\* "queries.push(...checkDefaultMismatch(table, k, v, dbCol))"
CheckDefault ==
    /\ pc = "retained"
    /\ applied' = [applied EXCEPT
                      !.fn = "checkDefaultMismatch",
                      !.values = checkDefaultMismatch("app_t", "a", applied.field, applied.dbCol)]
    /\ pc' = "returned"
    /\ UNCHANGED <<decl, live, opts, ti, queries, qi, inflight, result, wire, run, prev, budget,
                   poolRegistry, pools, conn, seed>>

NextColumn == CheckType \/ CheckDefault

SpecColumn == InitColumn /\ [][NextColumn]_vars

(***************************************************************************)
(* parseSchema and generateCreateTable applied to one field map on their   *)
(* own, as generateDiff applies them to a table that does not exist yet.   *)
(* applied is [fields, schema, values]: the field map, the ParsedSchema    *)
(* and the statements returned.  The field maps hold the aliases with a    *)
(* primary key, modifiers written twice, groups named twice, a meta key    *)
(* and a value that is not a string.                                       *)
(***************************************************************************)
ParsedA ==
    {"id", "uid", "str index", "str index index", "str index index/g", "int index/g,g",
     "str unique", "str unique unique/u index/h"}
ParsedB ==
    {"id", "uid", "int index/g", "int index/g unique/u", "str unique/u,u index",
     "text unique index", "pid index/h,g"}

ParsedFieldMaps ==
    {<<Field("a", va)>> \o rest \o meta :
        va \in ParsedA,
        rest \in {<<>>, <<[k |-> "b", v |-> "", str |-> FALSE]>>}
                     \cup {<<Field("b", vb)>> : vb \in ParsedB},
        meta \in {<<>>, <<Field("~x", "str index index/g unique/u")>>}}

InitParse ==
    /\ decl = <<>>
    /\ live = <<>>
    /\ opts = NoOptions
    /\ pc = "declared"
    /\ ti = 1
    /\ queries = <<>>
    /\ qi = 0
    /\ inflight = Null
    /\ result = NoResult
    /\ wire = <<>>
    /\ run = NoReads
    /\ prev = "none"
    /\ budget = 0
    /\ poolRegistry = {}
    /\ pools = <<>>
    /\ conn = Null
    /\ seed = NoSeed
    /\ applied \in [fields : ParsedFieldMaps, schema : {EmptySchema}, values : {<<>>}]

\* "const schema = parseSchema(tableCols, customFields)"
Parse ==
    /\ pc = "declared"
    /\ applied' = [applied EXCEPT !.schema = parseSchema(applied.fields, CustomFields)]
    /\ pc' = "parsed"
    /\ UNCHANGED <<decl, live, opts, ti, queries, qi, inflight, result, wire, run, prev, budget,
                   poolRegistry, pools, conn, seed>>

\* "allQueries.push(...generateCreateTable(tableName, schema))"
CreateTable ==
    /\ pc = "parsed"
    /\ applied' = [applied EXCEPT !.values = generateCreateTable("t", applied.schema)]
    /\ pc' = "generated"
    /\ UNCHANGED <<decl, live, opts, ti, queries, qi, inflight, result, wire, run, prev, budget,
                   poolRegistry, pools, conn, seed>>

NextParse == Parse \/ CreateTable

SpecParse == InitParse /\ [][NextParse]_vars

(***************************************************************************)
(* One call of up() or of runSeed().                                       *)
(***************************************************************************)
InitRun == Init \/ InitSeed

NextRun == Next \/ NextSeed

SpecRun == InitRun /\ [][NextRun]_vars

(***************************************************************************)
(* Properties of the diff engine, stated on the life cycle of one table.   *)
(***************************************************************************)
\* the statement list is generateUpdateTable(S, T) for the declaration S and the
\* table T as it is reflected now
UpdateDiff == pc = "applying" /\ qi = 0 /\ run.against = "update"

Reflected == live[ti].tables[TableIx(live[ti], "t")]

Ops(list) == {list[i].sql.op : i \in 1..Len(list)}

AlterOps == {"ALTER TYPE", "SET DEFAULT", "DROP DEFAULT", "SET NOT NULL", "DROP NOT NULL"}
CreateIndexOps == {"CREATE INDEX", "CREATE UNIQUE INDEX", "ADD CONSTRAINT UNIQUE"}

\* C1: when every statement of an update diff has been applied successfully and the
\* declaration is unchanged, the next update diff of the table is empty
C1_ReapplyIsEmpty == (UpdateDiff /\ prev = "update") => queries = <<>>

\* C2: when every statement of generateCreateTable has been applied successfully to a
\* database without the table, the update diff of the same declaration is empty
C2_RoundTripIsEmpty == (UpdateDiff /\ prev = "create") => queries = <<>>

\* the stage of a statement in the order the specification lists
ListedStage(sql) ==
    CASE sql.op = "DROP COLUMN" -> 1
      [] sql.op = "DROP CONSTRAINT" -> 2
      [] sql.op = "DROP INDEX" -> 3
      [] sql.op = "ADD COLUMN" -> 4
      [] sql.op = "ALTER TYPE" -> 5
      [] sql.op \in {"SET DEFAULT", "DROP DEFAULT"} -> 6
      [] sql.op \in {"SET NOT NULL", "DROP NOT NULL"} -> 7
      [] sql.op \in {"CREATE INDEX", "CREATE UNIQUE INDEX"} -> 8
      [] sql.op = "ADD CONSTRAINT UNIQUE" -> 9

EmittedStage(sql) ==
    CASE sql.op = "DROP COLUMN" -> 1
      [] sql.op = "ADD COLUMN" -> 2
      [] sql.op \in AlterOps -> 3
      [] sql.op = "DROP CONSTRAINT" -> 4
      [] sql.op = "ADD CONSTRAINT UNIQUE" -> 5
      [] sql.op = "DROP INDEX" -> 6
      [] sql.op = "CREATE INDEX" -> 7
      [] sql.op = "CREATE UNIQUE INDEX" -> 8

AlterRank(sql) ==
    CASE sql.op = "ALTER TYPE" -> 1
      [] sql.op \in {"SET DEFAULT", "DROP DEFAULT"} -> 2
      [] sql.op \in {"SET NOT NULL", "DROP NOT NULL"} -> 3

\* the position of column c in the parsed declaration of table "t"
DeclaredAt(c) ==
    LET fields == parseSchema(decl[1].entries[1].cols, CustomFields).fields
    IN  CHOOSE i \in 1..Len(fields) : fields[i].field = c

C6_ColumnsBeforeIndexes ==
    UpdateDiff =>
        \A j \in 1..Len(queries) :
            queries[j].sql.op \in CreateIndexOps =>
                /\ \A i \in 1..Len(queries) : queries[i].sql.op = "DROP COLUMN" => i < j
                /\ \A k \in 1..Len(queries[j].sql.cols) :
                       LET c == queries[j].sql.cols[k]
                       IN  \/ /\ HasColumn(Reflected, c)
                              /\ \A i \in 1..Len(queries) :
                                     ~ (queries[i].sql.op = "DROP COLUMN" /\ queries[i].sql.name = c)
                           \/ \E i \in 1..(j - 1) :
                                  queries[i].sql.op = "ADD COLUMN" /\ queries[i].sql.name = c

\* an update diff that drops a column and creates an index on a column it adds
C6_Witness ==
    /\ UpdateDiff
    /\ "DROP COLUMN" \in Ops(queries)
    /\ \E i, j \in 1..Len(queries) :
          /\ queries[i].sql.op = "ADD COLUMN"
          /\ queries[j].sql.op \in CreateIndexOps
          /\ SeqIncludes(queries[j].sql.cols, queries[i].sql.name)

\* C7: an update diff against a table that has the index t_pkey holds no DROP INDEX of
\* t_pkey, whatever the declaration
C7_PkeyNeverDropped ==
    (UpdateDiff /\ SeqIncludes(ReflectIndexes(Reflected), "t_pkey")) =>
        \A i \in 1..Len(queries) :
            ~ (queries[i].sql.op = "DROP INDEX" /\ queries[i].sql.name = "t_pkey")

\* the parsed declaration of table "t"
DeclaredSchema == parseSchema(decl[1].entries[1].cols, CustomFields)

\* the columns of a parsed declaration whose resolved type contains SERIAL
SerialOf(schema) ==
    {schema.fields[i].field :
        i \in {k \in 1..Len(schema.fields) : includes(schema.fields[k].type, "SERIAL")}}

\* the declared columns whose resolved type contains SERIAL
SerialColumns == SerialOf(DeclaredSchema)

\* C11: a column definition of CREATE TABLE or ADD COLUMN whose type contains SERIAL
\* has no DEFAULT clause, and no SET DEFAULT, DROP DEFAULT, SET NOT NULL or DROP NOT NULL
\* statement names a declared SERIAL column, whatever the reflected column is (the
\* statements of a diff are those it holds when it is produced)
C11_SerialUntouched ==
    (pc = "applying" /\ qi = 0) =>
        /\ \A i \in 1..Len(queries) :
               \A k \in 1..Len(queries[i].sql.defs) :
                   includes(queries[i].sql.defs[k].type, "SERIAL") =>
                       queries[i].sql.defs[k].dflt = ""
        /\ (\E i \in 1..Len(queries) :
                queries[i].sql.op \in {"SET DEFAULT", "DROP DEFAULT",
                                       "SET NOT NULL", "DROP NOT NULL"}) =>
               \A i \in 1..Len(queries) :
                   queries[i].sql.op \in {"SET DEFAULT", "DROP DEFAULT",
                                          "SET NOT NULL", "DROP NOT NULL"} =>
                       queries[i].sql.name \notin SerialColumns

\* an update diff that adds a SERIAL column declared with a default, for a declaration
\* with a kept SERIAL column whose reflected row is NOT NULL and of another type
C11_Witness ==
    /\ UpdateDiff
    /\ \E i \in 1..Len(queries) :
          /\ queries[i].sql.op = "ADD COLUMN"
          /\ queries[i].sql.name \in SerialColumns
          /\ FieldOf(DeclaredSchema, queries[i].sql.name)[1].defaultValue # Null
    /\ \E c \in SerialColumns :
          /\ HasColumn(Reflected, c)
          /\ ColumnOf(Reflected.columns, c)[1].is_nullable = "NO"
          /\ ColumnOf(Reflected.columns, c)[1].data_type = "character varying"

(***************************************************************************)
(* Properties of generateDiff.                                             *)
(***************************************************************************)
\* queries is the list generateDiff returned for the current target, and the database
\* is as generateDiff read it
Diffed == pc \in {"confirmApply", "apply", "total"} /\ qi = 0 /\ inflight = Null

\* the table entries the engine reads: those of the files that parse
RECURSIVE EntriesOf(_)
EntriesOf(files) ==
    IF files = <<>> THEN {}
    ELSE (IF Head(files).parsed
          THEN {Head(files).entries[i] : i \in 1..Len(Head(files).entries)}
          ELSE {})
         \cup EntriesOf(Tail(files))

\* a declaration is an entry whose body is a mapping; the table it names is its key
\* after the prefix rewrite
DeclarationsOf(files) == {e \in EntriesOf(files) : e.obj}
DeclaredNames(config) == {PrefixedName(e.name, config) : e \in DeclarationsOf(decl)}
IgnoredNames(config) ==
    {PrefixedName(e.name, config) : e \in {d \in DeclarationsOf(decl) : Ignored(d.cols)}}
UnignoredNames(config) ==
    {PrefixedName(e.name, config) : e \in {d \in DeclarationsOf(decl) : ~ Ignored(d.cols)}}

NoStatementFor(X) == \A i \in 1..Len(queries) : queries[i].table # X
DropsTable(X) ==
    \E i \in 1..Len(queries) : queries[i].type = "DROP_TABLE" /\ queries[i].table = X

\* C8 as claimed: when a declaration of table X carries a truthy ~ignore, generateDiff
\* returns no statement for X, DROP TABLE included
C8_IgnoredUntouched ==
    Diffed => \A X \in IgnoredNames(targets[ti]) : NoStatementFor(X)

\* C8 (amended): when every declaration of table X carries a truthy ~ignore,
\* generateDiff returns no statement for X, DROP TABLE included
C8_AllIgnoredUntouched ==
    Diffed =>
        \A X \in IgnoredNames(targets[ti]) \ UnignoredNames(targets[ti]) : NoStatementFor(X)

\* dropOrphans is set, the ignored table is live and listed, and generateDiff returned
\* statements for other tables
C8_Witness ==
    /\ Diffed
    /\ opts.dropOrphans
    /\ queries # <<>>
    /\ \E X \in IgnoredNames(targets[ti]) \ UnignoredNames(targets[ti]) :
          SeqIncludes(run.tablesReal, X)

\* C9: generateDiff returns DROP TABLE X exactly when dropOrphans is set, X is in the
\* list of live tables and no declaration names X; the DROP TABLE statements are the
\* last of the list; without dropOrphans there is none
C9_OrphanPolicy ==
    Diffed =>
        /\ \A X \in {queries[i].table : i \in 1..Len(queries)}
                    \cup {run.tablesReal[i] : i \in 1..Len(run.tablesReal)} :
               DropsTable(X) <=> /\ opts.dropOrphans
                                 /\ SeqIncludes(run.tablesReal, X)
                                 /\ X \notin DeclaredNames(targets[ti])
        /\ \A i, j \in 1..Len(queries) :
               (i < j /\ queries[i].type = "DROP_TABLE") => queries[j].type = "DROP_TABLE"
        /\ ~ opts.dropOrphans => \A i \in 1..Len(queries) : queries[i].type # "DROP_TABLE"

\* an orphan is dropped after other statements, and a live table that is declared is kept
C9_Witness ==
    /\ Diffed
    /\ Len(queries) >= 2
    /\ queries[1].type # "DROP_TABLE"
    /\ queries[Len(queries)].type = "DROP_TABLE"
    /\ \E i \in 1..Len(run.tablesReal) : run.tablesReal[i] \in DeclaredNames(targets[ti])

\* the catalog reads of table X were attempted: X is listed and a declaration of X
\* reaches the UPDATE branch
Reflects(X) ==
    /\ SeqIncludes(run.tablesReal, X)
    /\ \E e \in DeclarationsOf(decl) :
          /\ PrefixedName(e.name, targets[ti]) = X
          /\ ~ Ignored(e.cols)
          /\ Len(e.cols) > 0

\* the statements of list for the tables other than X
Others(list, X) == SelectSeq(list, LAMBDA q : q.table # X)

\* what generateDiff returns from the same reads when none of them throws
Unthrown ==
    generateDiff(targets[ti], live[ti], decl, opts.dropOrphans, run.listed, {})

RECURSIVE EntryList(_)
EntryList(files) ==
    IF files = <<>> THEN <<>>
    ELSE (IF Head(files).parsed THEN Head(files).entries ELSE <<>>) \o EntryList(Tail(files))

\* the CREATE statements of one entry: none unless it is a declaration without ~ignore
\* and with a column
CreatesOfEntry(e, config) ==
    LET Built(schema) ==
            IF schema.fields = <<>> THEN <<>>
            ELSE generateCreateTable(PrefixedName(e.name, config), schema)
    IN  IF ~ e.obj \/ Ignored(e.cols) THEN <<>>
        ELSE Built(parseSchema(e.cols, CustomFields))

RECURSIVE CreatesOf(_, _)
CreatesOf(entries, config) ==
    IF entries = <<>> THEN <<>>
    ELSE CreatesOfEntry(Head(entries), config) \o CreatesOf(Tail(entries), config)

\* C13: when the query listing the live tables fails, generateDiff returns, declaration
\* by declaration, the generateCreateTable statements of every declared table that is
\* not ignored and has a column, and nothing else: no ALTER, no ADD or DROP COLUMN, no
\* DROP INDEX, DROP CONSTRAINT or DROP TABLE
C13_ListFailureCreateOnly ==
    (Diffed /\ ~ run.listed) =>
        /\ queries = CreatesOf(EntryList(decl), targets[ti])
        /\ Ops(queries) \cap (AlterOps \cup {"DROP COLUMN", "DROP INDEX", "DROP CONSTRAINT",
                                              "DROP TABLE", "ADD COLUMN"}) = {}

\* the listing failed on a database that holds a declared table and an orphan, with
\* dropOrphans set, and statements were returned
C13_Witness ==
    /\ Diffed
    /\ ~ run.listed
    /\ opts.dropOrphans
    /\ queries # <<>>
    /\ \E i \in 1..Len(live[ti].tables) : live[ti].tables[i].name \in DeclaredNames(targets[ti])
    /\ \E i \in 1..Len(live[ti].tables) : live[ti].tables[i].name \notin DeclaredNames(targets[ti])

(***************************************************************************)
(* Properties of up().                                                     *)
(***************************************************************************)
\* what reached the executor of target id while its statement list was applied
Sent(id) == SelectSeq(wire, LAMBDA w : w.target = id /\ w.port = "pg")

Sqls(list) == [i \in 1..Len(list) |-> list[i].sql]

\* the failed calls on the wire, as result.failed books them
FailedOnWire ==
    LET f == SelectSeq(wire, LAMBDA w : w.port = "pg" /\ w.outcome \notin {"ok", "pending"})
    IN  [i \in 1..Len(f) |-> [sql |-> f[i].sql, error |-> f[i].outcome]]

\* C3: while a target's list is applied, what was dispatched is a prefix of the list,
\* each statement once, failures or not; the loop is left only when the whole list was
\* dispatched; result.failed is, in dispatch order, the SQL and the error message of
\* the dispatches that failed
C3_FailSoft ==
    /\ [](pc = "apply" =>
              /\ Len(Sent(targets[ti].id)) = qi + Len(inflight)
              /\ Sqls(Sent(targets[ti].id)) = SubSeq(Sqls(queries), 1, qi + Len(inflight)))
    /\ [](result.failed = FailedOnWire)
    /\ [][(pc = "apply" /\ pc' # "apply") =>
              Sqls(Sent(targets[ti].id)) = Sqls(queries)]_vars

\* up() returned after a statement failed, a later one of the same target succeeded
\* and another one failed
C3_Witness ==
    /\ pc = "done"
    /\ Len(result.failed) >= 2
    /\ \E i, j \in 1..Len(wire) :
          /\ i < j
          /\ wire[i].target = wire[j].target
          /\ wire[i].port = "pg"
          /\ wire[i].outcome # "ok"
          /\ wire[j].outcome = "ok"

\* C4: a statement is dispatched only when every earlier dispatch has settled, and the
\* k-th dispatch of a target is the k-th statement of the list generateDiff returned
C4_ApplyOrder ==
    [][(Len(wire') > Len(wire) /\ wire'[Len(wire')].port = "pg") =>
           /\ \A i \in 1..Len(wire) : wire[i].outcome # "pending"
           /\ Len(Sent(targets[ti].id)) < Len(queries)
           /\ wire'[Len(wire')].sql = queries[Len(Sent(targets[ti].id)) + 1].sql]_vars

\* the third statement of a target is in flight, the first two having settled
C4_Witness ==
    /\ pc = "apply"
    /\ qi >= 2
    /\ inflight # Null
    /\ wire[Len(wire)].outcome = "pending"

\* C10: with dry set nothing schema-changing reaches an executor, CREATE DATABASE
\* included, no database changes, and the result has executed = 0 and failed empty
C10_DryRunExecutesNothing ==
    /\ [](opts.dry => /\ wire = <<>>
                      /\ inflight = Null
                      /\ result.executed = 0
                      /\ result.failed = <<>>)
    /\ [][opts.dry => live' = live]_vars

\* a dry run with create set returned, the first database does not exist and there
\* were statements to show
C10_Witness ==
    /\ opts.dry
    /\ opts.create
    /\ pc = "done"
    /\ ~ live[1].exists
    /\ result.total > 0

\* C12: once a call of a target has failed for want of a connection (the listing of its
\* tables, a dispatched statement or CREATE DATABASE), nothing more is dispatched for
\* that target, up() goes on to the next target instead of throwing, and the failure
\* is in result.failed
C12_ConnectivityAborts ==
    /\ \A i \in 1..Len(wire) :
          wire[i].outcome = "connection terminated" =>
              /\ \A j \in (i + 1)..Len(wire) : wire[j].target # wire[i].target
              /\ pc \notin {"throw", "failed"}
              /\ \E k \in 1..Len(result.failed) :
                    result.failed[k] = [sql |-> wire[i].sql, error |-> wire[i].outcome]
    /\ (pc = "apply" /\ live[ti].exists /\ ~ run.listed) => (qi = 0 /\ inflight = Null)

(***************************************************************************)
(* Properties of the pool registry.                                        *)
(***************************************************************************)
\* C15: whenever up() or runSeed() has been left, by return or by throw, the pool
\* registry is empty and every pool constructed during the call has been ended
\* exactly once
C15_CloseExactlyOnce ==
    [](pc \in {"done", "failed"} =>
          /\ poolRegistry = {}
          /\ \A i \in 1..Len(pools) : pools[i].ended = 1)

\* up() was left by the throw of CREATE DATABASE on its second target, after the admin
\* pools of both targets and the pool of the first had been constructed
C15_Witness ==
    /\ pc = "failed"
    /\ Len(pools) = 3
    /\ \E i \in 1..Len(wire) : wire[i].port = "admin" /\ wire[i].outcome = "connection terminated"

(***************************************************************************)
(* Properties of runSeed.                                                  *)
(***************************************************************************)
\* the columns of the first unique index on plain columns, in catalog order, whose
\* columns are all seed keys; none without such an index
RECURSIVE FirstUniqueIn(_, _)
FirstUniqueIn(indexes, seedKeys) ==
    IF indexes = <<>> THEN <<>>
    ELSE IF /\ Head(indexes).unique
            /\ ~ Head(indexes).expr
            /\ \A n \in 1..Len(Head(indexes).cols) : SeqIncludes(seedKeys, Head(indexes).cols[n])
    THEN Head(indexes).cols
    ELSE FirstUniqueIn(Tail(indexes), seedKeys)

\* C20: when no catalog query throws, the match columns of a seed table are its
\* primary-key columns if the sample row has them all, otherwise the columns of the
\* first unique index whose columns the sample row has all, otherwise none
C20_MatchColumnDiscovery ==
    budget = 0 =>
        \A n \in 1..Len(seed.seedTables) :
            seed.seedTables[n].matchColumns =
                IF \A m \in 1..Len(seed.table.pk) :
                       SeqIncludes(SeedKeys(seed.seedTables[n].rows), seed.table.pk[m])
                THEN seed.table.pk
                ELSE FirstUniqueIn(seed.table.indexes, SeedKeys(seed.seedTables[n].rows))

(***************************************************************************)
(* Properties of Database.                                                 *)
(***************************************************************************)
\* the statements on the transaction's connection
Issued(c, sql) == {i \in 1..Len(c.log) : c.log[i].op = "query" /\ c.log[i].sql = sql}

\* the try block of the transaction has been left with an error and the catch block
\* has run
Caught(c) == c.error # Null /\ pc \in {"release", "idle"}

\* C16: in transaction(fn) BEGIN is the first statement on the connection, COMMIT is
\* issued only if fn resolved, and when BEGIN, fn or COMMIT throws, ROLLBACK is issued
\* on that connection, no COMMIT follows it, and the call rejects with the error that
\* was thrown first
C16_AutoRollback ==
    conn # Null =>
        /\ conn[1].log # <<>> => conn[1].log[1].sql = "BEGIN"
        /\ Issued(conn[1], "COMMIT") # {} => conn[1].fn = "resolved"
        /\ Caught(conn[1]) =>
              /\ \E i \in Issued(conn[1], "ROLLBACK") :
                    \A j \in Issued(conn[1], "COMMIT") : j < i
              /\ conn[1].settled = conn[1].error

\* the places of raw.release() in the log of the connection
Releases(c) == {i \in 1..Len(c.log) : c.log[i].op = "release"}

\* C17: a transaction that obtained a connection releases it at most once, after its
\* last statement, and has released it once the call is over, however fn, COMMIT and
\* ROLLBACK ended
C17_ReleasedOnce ==
    conn # Null =>
        /\ Cardinality(Releases(conn[1])) <= 1
        /\ \A i \in Releases(conn[1]) : i = Len(conn[1].log)
        /\ pc = "idle" => Cardinality(Releases(conn[1])) = 1

\* a transaction is over whose COMMIT threw and whose ROLLBACK threw as well
C17_Witness ==
    /\ pc = "idle"
    /\ conn # Null
    /\ \E i \in Issued(conn[1], "COMMIT") : conn[1].log[i].outcome = "error"
    /\ \E i \in Issued(conn[1], "ROLLBACK") : conn[1].log[i].outcome = "error"
    /\ Releases(conn[1]) # {}

\* the letters a statement begins with after its leading white space, in upper case
RECURSIVE LetterPrefix(_)
LetterPrefix(s) ==
    IF s # "" /\ Head(s) \in LetterChars THEN Head(s) \o LetterPrefix(Tail(s)) ELSE ""

FirstKeyword(sql) == toUpperCase(LetterPrefix(trimStart(sql)))

WritePool == poolKey(resolveCluster(opts.cluster).writeNode)

\* C18: query() hands a statement to a pool other than the write node's only if the
\* statement's first keyword is SELECT, SHOW, EXPLAIN or WITH and the instance was not
\* created with primary: true; every other statement goes to the write node's pool
C18_ReadWriteRouting ==
    \A i \in 1..Len(wire) :
        wire[i].pool # WritePool =>
            /\ FirstKeyword(wire[i].call.sql) \in {"SELECT", "SHOW", "EXPLAIN", "WITH"}
            /\ ~ opts.primary

\* a lower-case select with leading white space went to the pool of a read replica
C18_Witness ==
    /\ wire # <<>>
    /\ wire[1].pool # WritePool
    /\ wire[1].call.sql = "  select 1"
    /\ wire[1].pool \in {pools[i].key : i \in 1..Len(pools)}

\* the places of the :name occurrences of a statement: a colon that no colon precedes
\* and that a letter or underscore follows
Occurrences(s) ==
    {i \in 1..(Len(s) - 1) :
        /\ Ch(s, i) = ":"
        /\ (i = 1 \/ Ch(s, i - 1) # ":")
        /\ Ch(s, i + 1) \in LetterChars \cup {"_"}}

NameAt(s, i) == WordPrefix(SubSeq(s, i + 1, Len(s)))

\* the occurrences whose name is a key of the params with a defined value
Bound(s, entries) ==
    {i \in Occurrences(s) :
        \E n \in 1..Len(entries) : entries[n].k = NameAt(s, i) /\ entries[n].v # Undefined}

\* the statement from place i on, with its k-th bound occurrence replaced by $k
RECURSIVE Numbered(_, _, _)
Numbered(s, entries, i) ==
    LET Swap(j) ==
            SubSeq(s, i, j - 1)
            \o "$" \o String(Cardinality({m \in Bound(s, entries) : m <= j}))
            \o Numbered(s, entries, j + 1 + Len(NameAt(s, j)))
        Ahead == {j \in Bound(s, entries) : j >= i}
    IN  IF Ahead = {} THEN SubSeq(s, i, Len(s))
        ELSE Swap(CHOOSE j \in Ahead : \A m \in Ahead : j <= m)

\* the value of the k-th bound occurrence
ValueAt(s, entries, k) ==
    Get(entries, NameAt(s, CHOOSE i \in Bound(s, entries) :
                              Cardinality({j \in Bound(s, entries) : j <= i}) = k))

\* C19: with named params, query() sends the statement with every :name occurrence
\* whose name is a key with a defined value replaced by $k, k counting these occurrences
\* from the left, and nothing else changed (::type included); the values are those of
\* the names, in that order, as many as there are $k
C19_NamedParameters ==
    \A i \in 1..Len(wire) :
        (wire[i].call.params # Null /\ ~ wire[i].call.params[1].array) =>
            /\ wire[i].sql = Numbered(wire[i].call.sql, wire[i].call.params[1].entries, 1)
            /\ Len(wire[i].values) =
                   Cardinality(Bound(wire[i].call.sql, wire[i].call.params[1].entries))
            /\ \A k \in 1..Len(wire[i].values) :
                   wire[i].values[k] =
                       ValueAt(wire[i].call.sql, wire[i].call.params[1].entries, k)
            /\ Len(wire[i].values) =
                   Cardinality({n \in 1..Len(wire[i].sql) : Ch(wire[i].sql, n) = "$"})

(***************************************************************************)
(* Properties of the analyze and apply passes of runSeed.                  *)
(***************************************************************************)
\* the value of a decimal literal with at most three decimals, in thousandths
Milli(s) ==
    LET Pad(frac) == SubSeq(frac \o "000", 1, 3)
        Of(p) == 1000 * parseInt(p[1]) + (IF Len(p) = 2 THEN parseInt(Pad(p[2])) ELSE 0)
    IN  IF Head(s) = "-" THEN 0 - Of(split(Tail(s), "."))
        ELSE IF Head(s) = "+" THEN Of(split(Tail(s), "."))
        ELSE Of(split(s, "."))

\* a declared value and a stored column agree: both null, or both numbers of the same
\* value, or the same text
Agree(d, x) ==
    IF d.t = "null" THEN x = Null
    ELSE IF x = Null THEN FALSE
    ELSE IF IsDecimal(trim(d.v)) /\ IsDecimal(trim(x[1]))
    THEN Milli(trim(d.v)) = Milli(trim(x[1]))
    ELSE d.t = "string" /\ d.v = x[1]

\* the stored rows that equal a declared row on the match columns
Matching(st, row) ==
    SelectSeq(seed.table.rows,
              LAMBDA r : \A n \in 1..Len(st.matchColumns) :
                            /\ Get(row, st.matchColumns[n]).t # "null"
                            /\ r[st.matchColumns[n]] = <<Get(row, st.matchColumns[n]).v>>)

\* the class the analysis owes a declared row
ClassOf(st, row) ==
    IF Matching(st, row) = <<>> THEN "insert"
    ELSE IF \E n \in 1..Len(row) :
               /\ ~ SeqIncludes(st.matchColumns, row[n].k)
               /\ ~ Agree(row[n].v, Matching(st, row)[1][row[n].k])
    THEN "update"
    ELSE "unchanged"

\* the seed table whose rows are analyzed
Analyzed == seed.seedTables[seed.i]

\* C21: while a table with match columns is analyzed every row gone through has one
\* class, insert, update or unchanged, so the three counts add up to the rows; when no
\* query throws the class is insert if no stored row has the row's match values, else
\* update if a non-match column differs, else unchanged, a declared number agreeing
\* with a stored numeric string of the same value
C21_AnalyzeClassification ==
    (pc = "analyze" /\ Analyzed.matchColumns # <<>>) =>
        /\ Len(seed.classes) = seed.j - 1
        /\ seed.j <= Len(Analyzed.rows) + 1
        /\ Count(seed.classes, "insert") + Count(seed.classes, "update")
               + Count(seed.classes, "unchanged") = Len(seed.classes)
        /\ budget = 0 =>
               \A n \in 1..Len(seed.classes) :
                   seed.classes[n] = ClassOf(Analyzed, Analyzed.rows[n])

\* a row declaring 180 was found unchanged against a stored "180.00"
C21_Witness ==
    /\ pc = "analyze"
    /\ Analyzed.matchColumns = <<"a">>
    /\ seed.j > Len(Analyzed.rows)
    /\ seed.classes # <<>>
    /\ seed.table.rows # <<>>
    /\ Get(Analyzed.rows[1], "c") = Num("180")
    /\ seed.table.rows[1].c = <<"180.00">>
    /\ seed.classes[1] = "unchanged"

\* the rows gone through by the apply pass that the analysis found to need a change
NonTrivial == {n \in 1..(seed.j - 1) : seed.classes[n] # "unchanged"}

\* C22: in the apply pass of a table with match columns a write is handed to the
\* executor only for a row the analysis classified insert or update, and the rows
\* counted as inserted or updated are among these
C22_ApplyOnlyNonTrivial ==
    (pc = "applyRows" /\ Analyzed.matchColumns # <<>>) =>
        /\ \A w \in 1..Len(wire) :
               \E n \in NonTrivial : Analyzed.rows[n] = wire[w].sql.row
        /\ seed.counts.inserted + seed.counts.updated <= Cardinality(NonTrivial)

(***************************************************************************)
(* Properties of the default normalizer.                                   *)
(***************************************************************************)
\* C23: normalizeDbDefaultForCompare applied to its own result returns that result
C23_CanonicalIdempotent ==
    pc = "twice" => applied.values[2] = applied.values[1]

(***************************************************************************)
(* Properties of the column checks of the diff engine.                     *)
(***************************************************************************)
\* the declared default in its emission form, null when the column declares none
DeclaredDefault(field) == normalizeDefaultSql(field.defaultValue, field.type)

\* the canonical form of the reflected default, "" without one
CanonicalReflected(dbCol) ==
    normalizeDbDefaultForCompare(IF dbCol.column_default = Null THEN ""
                                 ELSE dbCol.column_default[1])

\* what the default of a retained column calls for
DefaultDecision(field, dbCol) ==
    IF DeclaredDefault(field) = Null
    THEN (IF CanonicalReflected(dbCol) # "" THEN "DROP DEFAULT" ELSE "")
    ELSE IF normalizeDbDefaultForCompare(DeclaredDefault(field)[1]) # CanonicalReflected(dbCol)
    THEN "SET DEFAULT"
    ELSE ""

\* C24: for a retained column that is not SERIAL, checkDefaultMismatch returns one DROP
\* DEFAULT when no default is declared and the canonical reflected default is not
\* empty, one SET DEFAULT with the declared default in its emission form when a
\* default is declared whose canonical form is not the canonical reflected default,
\* and nothing otherwise
C24_DefaultDecision ==
    (/\ pc = "returned"
     /\ applied.fn = "checkDefaultMismatch"
     /\ ~ includes(applied.field.type, "SERIAL")) =>
        IF DefaultDecision(applied.field, applied.dbCol) = ""
        THEN applied.values = <<>>
        ELSE /\ Len(applied.values) = 1
             /\ applied.values[1].sql.op = DefaultDecision(applied.field, applied.dbCol)
             /\ applied.values[1].sql.name = "a"
             /\ applied.values[1].sql.op = "SET DEFAULT" =>
                    applied.values[1].sql.arg = DeclaredDefault(applied.field)[1]

\* The head of a declared type and the numbers of its (P[,S]) or (N), if any.
DeclaredHead(type) == split(type, "(")[1]

DeclaredSize(type) ==
    IF includes(type, "(") /\ endsWith(type, ")")
    THEN split(SubSeq(type, Len(DeclaredHead(type)) + 2, Len(type) - 1), ",")
    ELSE <<>>

\* A reflected number differs from a declared one when it is null or another number.
Differs(reflected, declared) == reflected = Null \/ String(reflected[1]) # declared

TypeDiffers(type, dbCol) ==
    \/ MappedType(DeclaredHead(type)) # dbCol.data_type
    \/ /\ DeclaredSize(type) # <<>>
       /\ IF DeclaredHead(type) \in {"NUMERIC", "DECIMAL"}
          THEN \/ Differs(dbCol.numeric_precision, DeclaredSize(type)[1])
               \/ /\ Len(DeclaredSize(type)) = 2
                  /\ Differs(dbCol.numeric_scale, DeclaredSize(type)[2])
          ELSE Differs(dbCol.character_maximum_length, DeclaredSize(type)[1])

\* C25: for a retained column checkTypeMismatch returns exactly one ALTER
\* COLUMN TYPE to the declared type when the catalog form of the declared type
\* differs from the reflected data type, or they agree and a declared (P[,S])
\* differs from the reflected precision and scale or a declared (N) differs
\* from the reflected character length, a reflected null differing from every
\* declared number; it returns nothing when all of these agree.
C25_TypeDecision ==
    (pc = "returned" /\ applied.fn = "checkTypeMismatch") =>
        IF TypeDiffers(applied.field.type, applied.dbCol)
        THEN /\ Len(applied.values) = 1
             /\ applied.values[1].sql.op = "ALTER TYPE"
             /\ applied.values[1].sql.name = "a"
             /\ applied.values[1].sql.arg = applied.field.type
        ELSE applied.values = <<>>

(***************************************************************************)
(* Properties of parseSchema and generateCreateTable                       *)
(***************************************************************************)
\* the positions of the columns of a ParsedSchema that carry the given key
Keyed(schema, key) == {i \in 1..Len(schema.fields) : schema.fields[i].key = key}

\* C26: the ParsedSchema returned by parseSchema has at most one column whose
\* key is the primary key, and the CREATE TABLE statement of
\* generateCreateTable has at most one inline PRIMARY KEY constraint.
C26_SinglePrimaryKey ==
    /\ pc \in {"parsed", "generated"} => Cardinality(Keyed(applied.schema, "PRI")) <= 1
    /\ pc = "generated" =>
           Cardinality({i \in 1..Len(applied.values[1].sql.defs) :
                           applied.values[1].sql.defs[i].pk}) <= 1

\* the number of positions of the set that are not after position i
Rank(positions, i) == Cardinality({j \in positions : j <= i})

\* the numbers U, I, C and K of a ParsedSchema
CountU(schema) == Cardinality(Keyed(schema, "UNI"))
CountI(schema) == Len(schema.individualIndexes)
CountC(schema) == Len(schema.compositeIndexes)
CountK(schema) == Len(schema.compositeUniqueIndexes)

StatementIs(q, op, name, cols) ==
    /\ q.type = "ADD_INDEX"
    /\ q.table = "t"
    /\ q.sql.op = op
    /\ q.sql.on = "t"
    /\ q.sql.name = name
    /\ q.sql.cols = cols

\* C27: generateCreateTable(table, S) returns exactly 1 + U + I + C + K
\* statements: first the CREATE TABLE listing every column of S in declaration
\* order, then one ADD CONSTRAINT table_col_unique per column with a unique key
\* of its own, one CREATE INDEX table_col_idx per individual index, one CREATE
\* INDEX per composite index group and one CREATE UNIQUE INDEX per
\* composite-unique group, in that order.
C27_CreateTableStatements ==
    pc = "generated" =>
        /\ Len(applied.values) = 1 + CountU(applied.schema) + CountI(applied.schema)
                                   + CountC(applied.schema) + CountK(applied.schema)
        /\ applied.values[1].type = "CREATE_TABLE"
        /\ applied.values[1].sql.op = "CREATE TABLE"
        /\ applied.values[1].sql.name = "t"
        /\ Len(applied.values[1].sql.defs) = Len(applied.schema.fields)
        /\ \A i \in 1..Len(applied.schema.fields) :
              applied.values[1].sql.defs[i].name = applied.schema.fields[i].field
        /\ \A i \in Keyed(applied.schema, "UNI") :
              StatementIs(applied.values[1 + Rank(Keyed(applied.schema, "UNI"), i)],
                          "ADD CONSTRAINT UNIQUE",
                          "t_" \o applied.schema.fields[i].field \o "_unique",
                          <<applied.schema.fields[i].field>>)
        /\ \A i \in 1..CountI(applied.schema) :
              StatementIs(applied.values[1 + CountU(applied.schema) + i],
                          "CREATE INDEX",
                          "t_" \o applied.schema.individualIndexes[i] \o "_idx",
                          <<applied.schema.individualIndexes[i]>>)
        /\ \A i \in 1..CountC(applied.schema) :
              StatementIs(applied.values[1 + CountU(applied.schema) + CountI(applied.schema) + i],
                          "CREATE INDEX",
                          "t_" \o applied.schema.compositeIndexes[i].name \o "_idx",
                          applied.schema.compositeIndexes[i].columns)
        /\ \A i \in 1..CountK(applied.schema) :
              StatementIs(applied.values[1 + CountU(applied.schema) + CountI(applied.schema)
                                           + CountC(applied.schema) + i],
                          "CREATE UNIQUE INDEX",
                          "t_" \o applied.schema.compositeUniqueIndexes[i].name \o "_unique_idx",
                          applied.schema.compositeUniqueIndexes[i].columns)

C27_Witness ==
    /\ pc = "generated"
    /\ CountU(applied.schema) = 2
    /\ CountI(applied.schema) >= 1
    /\ CountC(applied.schema) >= 1
    /\ CountK(applied.schema) >= 1
    /\ Len(applied.values) >= 6

\* the entries of a field map that declare a column, in declaration order
DeclaredEntries(fields) == SelectSeq(fields, LAMBDA e : e.str /\ ~ startsWith(e.k, "~"))

\* the entry carries the modifier "index"
PlainIndex(entry) == SeqIncludes(splitSpace(entry.v), "index")

\* the entry names the group in a modifier "index/.." (prefix "index/") or "unique/.."
NamesGroup(entry, prefix, group) ==
    \E n \in 1..Len(splitSpace(entry.v)) :
       /\ startsWith(splitSpace(entry.v)[n], prefix)
       /\ SeqIncludes(split(substring(splitSpace(entry.v)[n], Len(prefix)), ","), group)

NoRepeat(s) == \A i, j \in 1..Len(s) : s[i] = s[j] => i = j

\* the columns are exactly those of the entries that name the group, in their order, once each
GroupBooked(fields, prefix, group) ==
    /\ NoRepeat(group.columns)
    /\ {group.columns[i] : i \in 1..Len(group.columns)}
           = {DeclaredEntries(fields)[n].k : n \in {m \in 1..Len(DeclaredEntries(fields)) :
                                                      NamesGroup(DeclaredEntries(fields)[m], prefix, group.name)}}
    /\ \A i, j \in 1..Len(group.columns) :
          i < j => \E m, n \in 1..Len(DeclaredEntries(fields)) :
                      /\ m < n
                      /\ DeclaredEntries(fields)[m].k = group.columns[i]
                      /\ DeclaredEntries(fields)[n].k = group.columns[j]

MetaKeyBooked(schema) ==
    \/ \E i \in 1..Len(schema.fields) : startsWith(schema.fields[i].field, "~")
    \/ \E i \in 1..Len(schema.individualIndexes) : startsWith(schema.individualIndexes[i], "~")
    \/ \E i \in 1..Len(schema.compositeIndexes) :
          \E j \in 1..Len(schema.compositeIndexes[i].columns) :
             startsWith(schema.compositeIndexes[i].columns[j], "~")
    \/ \E i \in 1..Len(schema.compositeUniqueIndexes) :
          \E j \in 1..Len(schema.compositeUniqueIndexes[i].columns) :
             startsWith(schema.compositeUniqueIndexes[i].columns[j], "~")

\* C28: parseSchema lists a column in individualIndexes at most once and only
\* if it carries the modifier index; the column list of each composite group
\* (index/group or unique/group) holds exactly the columns that name the
\* group, in declaration order, each once; a key that begins with ~ is no
\* column and is in no index list.
C28_IndexBookkeeping ==
    pc \in {"parsed", "generated"} =>
        /\ NoRepeat(applied.schema.individualIndexes)
        /\ \A i \in 1..Len(applied.schema.individualIndexes) :
              \E n \in 1..Len(DeclaredEntries(applied.fields)) :
                 /\ DeclaredEntries(applied.fields)[n].k = applied.schema.individualIndexes[i]
                 /\ PlainIndex(DeclaredEntries(applied.fields)[n])
        /\ \A i \in 1..Len(applied.schema.compositeIndexes) :
              GroupBooked(applied.fields, "index/", applied.schema.compositeIndexes[i])
        /\ \A i \in 1..Len(applied.schema.compositeUniqueIndexes) :
              GroupBooked(applied.fields, "unique/", applied.schema.compositeUniqueIndexes[i])
        /\ ~ MetaKeyBooked(applied.schema)

(***************************************************************************)
(* Properties of the result of up()                                        *)
(***************************************************************************)
\* the statements handed to target.pg.query so far, and those that settled as given
Dispatched == {i \in 1..Len(wire) : wire[i].port = "pg"}
DispatchedAs(outcomes) == {i \in Dispatched : wire[i].outcome \in outcomes}

\* C29: when up() returns with dry = false, executed + failed.length is the
\* number of statements dispatched to the target executors and is total; at
\* every point of the run executed + failed.length is at most the number of
\* statements generated so far (total and the list of the target at hand), and
\* no statement is counted both as executed and as failed: executed counts the
\* dispatched statements that succeeded, failed lists those that failed.
C29_ResultAccounting ==
    /\ (pc = "done" /\ ~ opts.dry) =>
           /\ result.executed + Len(result.failed) = Cardinality(Dispatched)
           /\ result.executed + Len(result.failed) = result.total
    /\ result.executed + Len(result.failed) <= result.total + Len(queries)
    /\ result.executed = Cardinality(DispatchedAs({"ok"}))
    /\ Len(result.failed) = Cardinality(Dispatched \ DispatchedAs({"ok", "pending"}))
    /\ Cardinality(DispatchedAs({"pending"})) <= 1

C29_Witness ==
    /\ pc = "done"
    /\ ~ opts.dry
    /\ result.executed >= 1
    /\ Len(result.failed) >= 1
    /\ ti > 2
    /\ \E i \in 1..Len(wire) : wire[i].port = "admin"

(***************************************************************************)
(* Properties of a second call of runSeed                                  *)
(***************************************************************************)
\* C30: when runSeed, confirmed, returned with no failed row and is called
\* again with the same seed files against the database it left, the second
\* call, as long as none of its queries fails, adds no row: the rows of the
\* table stay as they were when it began, every analyzed row of a table with
\* match columns is classified unchanged, and for a table without match
\* columns no INSERT is handed to the executor, rows that hold a null value
\* included.
C30_RerunInsertsNothing ==
    (applied # NotApplied /\ budget = 0) =>
        /\ seed.table.rows = applied.rows
        /\ \A n \in 1..Len(seed.classes) : seed.classes[n] = "unchanged"
        /\ \A n \in (applied.sent + 1)..Len(wire) : wire[n].sql.op # "INSERT"

=============================================================================
